---- MODULE Spec2Model ----
(***************************************************************************)
(* A model of dclab/rtdc_dataset/config.py: the case-insensitive,          *)
(* section-aware ConfigurationDict, the two-level Configuration, the       *)
(* key/section validation and the text codec.                              *)
(*                                                                         *)
(* Python strings are sequences of one-character strings, so that lower(), *)
(* strip(), split() and the number formats are computed and not assumed.   *)
(* Python values are tagged records (field t is the Python type).          *)
(***************************************************************************)
EXTENDS Integers, Sequences, FiniteSets, TLC

VARIABLES
    d,      \* a stand-alone ConfigurationDict (the dictionary-level runs)
    cfgs,   \* the Configuration objects by name: "cfg", its copy "c"
    file,   \* the text of the configuration file on disk
    last,   \* the last operation: its arguments, warnings, exception, result
    CFG_ANALYSIS  \* dfn.CFG_ANALYSIS: the keys of the analysis options by section

vars == <<d, cfgs, file, last, CFG_ANALYSIS>>

(***************************************************************************)
(* Strings                                                                 *)
(***************************************************************************)
UpperChars == <<"A","B","C","D","E","F","G","H","I","J","K","L","M",
                "N","O","P","Q","R","S","T","U","V","W","X","Y","Z">>
LowerChars == <<"a","b","c","d","e","f","g","h","i","j","k","l","m",
                "n","o","p","q","r","s","t","u","v","w","x","y","z">>
DigitChars == <<"0","1","2","3","4","5","6","7","8","9">>

\* str.lower() on one character (ASCII letters)
LowerChar(ch) ==
    IF \E i \in DOMAIN UpperChars : UpperChars[i] = ch
    THEN LowerChars[CHOOSE i \in DOMAIN UpperChars : UpperChars[i] = ch]
    ELSE ch

\* str.lower()
Lower(s) == [i \in 1..Len(s) |-> LowerChar(s[i])]

\* str.upper() on one character, used to build case variants of a key
UpperChar(ch) ==
    IF \E i \in DOMAIN LowerChars : LowerChars[i] = ch
    THEN UpperChars[CHOOSE i \in DOMAIN LowerChars : LowerChars[i] = ch]
    ELSE ch

Upper(s) == [i \in 1..Len(s) |-> UpperChar(s[i])]

\* the characters str.strip() removes when called without argument
Whitespace == {" ", "\t", "\n", "\r"}

RECURSIVE LStripChars(_, _)
LStripChars(s, chars) ==
    IF Len(s) > 0 /\ s[1] \in chars THEN LStripChars(Tail(s), chars) ELSE s

RECURSIVE RStripChars(_, _)
RStripChars(s, chars) ==
    IF Len(s) > 0 /\ s[Len(s)] \in chars
    THEN RStripChars(SubSeq(s, 1, Len(s) - 1), chars)
    ELSE s

\* str.strip(chars)
StripChars(s, chars) == RStripChars(LStripChars(s, chars), chars)

\* str.strip()
Strip(s) == StripChars(s, Whitespace)

\* str.startswith / str.endswith
StartsWith(s, p) == Len(s) >= Len(p) /\ SubSeq(s, 1, Len(p)) = p
EndsWith(s, p) == Len(s) >= Len(p) /\ SubSeq(s, Len(s) - Len(p) + 1, Len(s)) = p

\* the positions of character ch in s
Positions(s, ch) == {i \in 1..Len(s) : s[i] = ch}

Min(S) == CHOOSE x \in S : \A y \in S : x <= y

\* str.split(ch): the pieces between the occurrences of ch
RECURSIVE Split(_, _)
SplitAt(s, ch, p) ==
    <<SubSeq(s, 1, p - 1)>> \o Split(SubSeq(s, p + 1, Len(s)), ch)

Split(s, ch) ==
    IF Positions(s, ch) = {} THEN <<s>> ELSE SplitAt(s, ch, Min(Positions(s, ch)))

\* str.split(ch, 1): split at the first occurrence only
Split1At(s, p) == <<SubSeq(s, 1, p - 1), SubSeq(s, p + 1, Len(s))>>

Split1(s, ch) ==
    IF Positions(s, ch) = {} THEN <<s>> ELSE Split1At(s, Min(Positions(s, ch)))

\* str.replace(a, b) for single characters
Replace(s, a, b) == [i \in 1..Len(s) |-> IF s[i] = a THEN b ELSE s[i]]

\* the order of characters (code points), for sorting keys
CharOrder == <<"\t", "\n", "\r", " ", "\"", "#", "'", "+", ",", "-", ".">>
             \o DigitChars \o <<"=">> \o UpperChars \o <<"[", "]", "_">>
             \o LowerChars
Ord(ch) == CHOOSE i \in DOMAIN CharOrder : CharOrder[i] = ch

\* s < t in Python's string order
RECURSIVE StrLess(_, _)
StrLess(s, t) ==
    IF Len(t) = 0 THEN FALSE
    ELSE IF Len(s) = 0 THEN TRUE
    ELSE IF s[1] = t[1] THEN StrLess(Tail(s), Tail(t))
    ELSE Ord(s[1]) < Ord(t[1])

(***************************************************************************)
(* Python values                                                           *)
(***************************************************************************)
None == [t |-> "none"]
VStr(s) == [t |-> "str", s |-> s]
VBool(b) == [t |-> "bool", b |-> b]
VInt(n) == [t |-> "int", n |-> n]
\* a finite float: sign, integer part, fractional digits without trailing zeros
VFloat(neg, ip, fr) == [t |-> "float", neg |-> neg, ip |-> ip, fr |-> fr]
\* a list object: own is the Configuration that the object belongs to
\* ("new" while it is a fresh object that no Configuration holds yet)
VList(own, items) == [t |-> "list", own |-> own, items |-> items]

NoExc == "none"

\* digits of a natural number and back
RECURSIVE NatToDigits(_)
NatToDigits(n) ==
    IF n < 10 THEN <<DigitChars[n + 1]>>
    ELSE NatToDigits(n \div 10) \o <<DigitChars[(n % 10) + 1]>>

IsDigit(ch) == \E i \in DOMAIN DigitChars : DigitChars[i] = ch
DigitVal(ch) == (CHOOSE i \in DOMAIN DigitChars : DigitChars[i] = ch) - 1

RECURSIVE DigitsToNat(_)
DigitsToNat(s) ==
    IF Len(s) = 0 THEN 0
    ELSE 10 * DigitsToNat(SubSeq(s, 1, Len(s) - 1)) + DigitVal(s[Len(s)])

RECURSIVE DropTrailingZeros(_)
DropTrailingZeros(ds) ==
    IF Len(ds) > 0 /\ ds[Len(ds)] = 0
    THEN DropTrailingZeros(SubSeq(ds, 1, Len(ds) - 1))
    ELSE ds

\* float(s) for the decimal forms [ws][sign]digits[.digits][ws] and
\* [ws][sign].digits[ws]; everything else is a ValueError here (the strings of
\* this model contain no exponent, underscore, "inf" or "nan" forms)
ParseDigits(ipart, fpart, neg) ==
    IF /\ \A i \in 1..Len(ipart) : IsDigit(ipart[i])
       /\ \A i \in 1..Len(fpart) : IsDigit(fpart[i])
       /\ Len(ipart) + Len(fpart) > 0
    THEN [ok |-> TRUE,
          v |-> VFloat(neg /\ \E i \in 1..Len(ipart \o fpart) : (ipart \o fpart)[i] # "0",
                       DigitsToNat(ipart),
                       DropTrailingZeros([i \in 1..Len(fpart) |-> DigitVal(fpart[i])]))]
    ELSE [ok |-> FALSE, v |-> None]

ParseParts(parts, neg) ==
    ParseDigits(parts[1], IF Len(parts) = 2 THEN parts[2] ELSE <<>>, neg)

ParseSigned(u) ==
    IF Len(u) > 0 /\ u[1] \in {"+", "-"}
    THEN ParseParts(Split1(Tail(u), "."), u[1] = "-")
    ELSE ParseParts(Split1(u, "."), FALSE)

ParseFloat(s) == ParseSigned(Strip(s))

\* float(n) for an int
IntToFloat(n) == IF n < 0 THEN VFloat(TRUE, 0 - n, <<>>) ELSE VFloat(FALSE, n, <<>>)

\* int(x) for a float: truncation towards zero
FloatToInt(x) == IF x.neg THEN 0 - x.ip ELSE x.ip

\* the number of fractional digits of the "{:.12f}" format
FloatDigits == 12

\* add one unit in the last place of a digit sequence: <<carry, digits>>
RECURSIVE IncDigits(_)
AppendZero(r) == <<r[1], r[2] \o <<0>>>>

IncDigits(ds) ==
    IF Len(ds) = 0 THEN <<1, <<>>>>
    ELSE IF ds[Len(ds)] < 9
         THEN <<0, [ds EXCEPT ![Len(ds)] = @ + 1]>>
         ELSE AppendZero(IncDigits(SubSeq(ds, 1, Len(ds) - 1)))

\* a float rounded to n fractional digits: <<integer part, n digits>>
Carry(ip, r) == <<ip + r[1], r[2]>>

RoundTo(x, n) ==
    IF Len(x.fr) <= n
    THEN <<x.ip, x.fr \o [i \in 1..(n - Len(x.fr)) |-> 0]>>
    ELSE IF x.fr[n + 1] >= 5
         THEN Carry(x.ip, IncDigits(SubSeq(x.fr, 1, n)))
         ELSE <<x.ip, SubSeq(x.fr, 1, n)>>

\* "{:.12f}".format(x)
FormatRounded(neg, r) ==
    (IF neg THEN <<"-">> ELSE <<>>)
    \o NatToDigits(r[1]) \o <<".">>
    \o [i \in 1..Len(r[2]) |-> DigitChars[r[2][i] + 1]]

FormatFloat(x) == FormatRounded(x.neg, RoundTo(x, FloatDigits))

\* str(v), "{}".format(v); list items are floats, shown as repr(float)
RECURSIVE PyStr(_)
RECURSIVE JoinItems(_)
JoinItems(items) ==
    IF Len(items) = 0 THEN <<>>
    ELSE IF Len(items) = 1 THEN PyStr(items[1])
    ELSE PyStr(items[1]) \o <<",", " ">> \o JoinItems(Tail(items))

PyStr(v) ==
    CASE v.t = "none" -> <<"N","o","n","e">>
      [] v.t = "str" -> v.s
      [] v.t = "bool" -> IF v.b THEN <<"T","r","u","e">> ELSE <<"F","a","l","s","e">>
      [] v.t = "int" -> IF v.n < 0 THEN <<"-">> \o NatToDigits(0 - v.n)
                        ELSE NatToDigits(v.n)
      [] v.t = "float" ->
            (IF v.neg THEN <<"-">> ELSE <<>>) \o NatToDigits(v.ip) \o <<".">>
            \o (IF v.fr = <<>> THEN <<"0">>
                ELSE [i \in 1..Len(v.fr) |-> DigitChars[v.fr[i] + 1]])
      [] OTHER -> <<"[">> \o JoinItems(v.items) \o <<"]">>

(***************************************************************************)
(* The words of the program                                                *)
(***************************************************************************)
s_setup == <<"s","e","t","u","p">>
s_filtering == <<"f","i","l","t","e","r","i","n","g">>
s_user == <<"u","s","e","r">>
s_plotting == <<"p","l","o","t","t","i","n","g">>
s_analysis == <<"a","n","a","l","y","s","i","s">>
s_bogus == <<"b","o","g","u","s">>
k_flow_rate == <<"f","l","o","w"," ","r","a","t","e">>
k_medium == <<"m","e","d","i","u","m">>
k_remove_invalid_events == <<"r","e","m","o","v","e"," ","i","n","v","a","l","i","d"," ","e","v","e","n","t","s">>
k_enable_filters == <<"e","n","a","b","l","e"," ","f","i","l","t","e","r","s">>
k_limit_events == <<"l","i","m","i","t"," ","e","v","e","n","t","s">>
k_polygon_filters == <<"p","o","l","y","g","o","n"," ","f","i","l","t","e","r","s">>
k_hierarchy_parent == <<"h","i","e","r","a","r","c","h","y"," ","p","a","r","e","n","t">>
k_limit_events_auto == <<"l","i","m","i","t"," ","e","v","e","n","t","s"," ","a","u","t","o">>
s_min == <<" ","m","i","n">>
s_max == <<" ","m","a","x">>
s_deform == <<"d","e","f","o","r","m">>
s_none == <<"n","o","n","e">>
k_foo == <<"f","o","o">>
s_true == <<"t","r","u","e">>
s_false == <<"f","a","l","s","e">>
s_y == <<"y">>
s_n == <<"n">>

(***************************************************************************)
(* The schema registry (dclab.definitions), as far as config.py uses it    *)
(***************************************************************************)
\* the registered (section, key) pairs with their value type and conversion
config_descr ==
    { [sec |-> s_setup, key |-> k_flow_rate, typ |-> "float", func |-> "float"],
      [sec |-> s_setup, key |-> k_medium, typ |-> "str", func |-> "str"],
      [sec |-> s_filtering, key |-> k_hierarchy_parent, typ |-> "str", func |-> "str"],
      [sec |-> s_filtering, key |-> k_remove_invalid_events, typ |-> "bool", func |-> "fbool"],
      [sec |-> s_filtering, key |-> k_enable_filters, typ |-> "bool", func |-> "fbool"],
      [sec |-> s_filtering, key |-> k_limit_events, typ |-> "int", func |-> "fint"],
      [sec |-> s_filtering, key |-> k_polygon_filters, typ |-> "list", func |-> "flist"] }

\* dfn.config_keys: the known section names
config_keys == {e.sec : e \in config_descr}

\* the analysis options of the registry: the registered keys of "filtering"
AnalysisOptions ==
    [filtering |-> {e.key : e \in {x \in config_descr : x.sec = s_filtering}}]

\* analysis options with one more "filtering" key, for which
\* _init_default_filter_values assigns no default
MoreAnalysisOptions ==
    [filtering |-> AnalysisOptions.filtering \cup {k_foo}]

\* dfn.CFG_ANALYSIS["filtering"]: the keys that need a default value
CFG_ANALYSIS_filtering == CFG_ANALYSIS.filtering

Entries(section, key) ==
    {e \in config_descr : section = VStr(e.sec) /\ key = VStr(e.key)}

\* dfn.config_key_exists(section, key)
config_key_exists(section, key) == Entries(section, key) # {}

\* dfn.scalar_feature_exists(name)
scalar_feature_exists(name) == name = s_deform

\* dfn.get_config_value_type(section, key): a type name, "any" for None
get_config_value_type(section, key) ==
    IF config_key_exists(section, key)
    THEN (CHOOSE e \in Entries(section, key) : TRUE).typ
    ELSE "any"

\* dfn.get_config_value_func(section, key): the name of the conversion
get_config_value_func(section, key) ==
    IF config_key_exists(section, key)
    THEN (CHOOSE e \in Entries(section, key) : TRUE).func
    ELSE "id"

\* isinstance(value, typ) for the registry's types
IsInstance(value, typ) ==
    CASE typ = "int" -> value.t \in {"int", "bool"}
      [] OTHER -> value.t = typ

\* a bracketed list of numbers "[a, b]" as a fresh list; ok is FALSE where
\* float() raises ValueError
ParsedItems(parsed) ==
    IF \A i \in 1..Len(parsed) : parsed[i].ok
    THEN [ok |-> TRUE, v |-> VList("new", [i \in 1..Len(parsed) |-> parsed[i].v])]
    ELSE [ok |-> FALSE, v |-> None]

ParseItems(pieces) == ParsedItems([i \in 1..Len(pieces) |-> ParseFloat(pieces[i])])

ParseInner(inner) ==
    IF Len(inner) = 0 THEN ParsedItems(<<>>) ELSE ParseItems(Split(inner, ","))

ParseList(s) == ParseInner(StripChars(s, {"[", "]", ","}))

Ret(v) == [v |-> v, exc |-> NoExc]
Raise(e) == [v |-> None, exc |-> e]

\* the registry's conversion functions applied to a value
FromParse(pf) == IF pf.ok THEN Ret(pf.v) ELSE Raise("ValueError")

ToFloat(v) ==
    CASE v.t = "float" -> Ret(v)
      [] v.t = "int" -> Ret(IntToFloat(v.n))
      [] v.t = "bool" -> Ret(IntToFloat(IF v.b THEN 1 ELSE 0))
      [] v.t = "str" -> FromParse(ParseFloat(v.s))
      [] OTHER -> Raise("TypeError")

FInt(v, num) ==
    IF v.t = "int" THEN Ret(v)
    ELSE IF num.exc # NoExc THEN num
    ELSE Ret(VInt(FloatToInt(num.v)))

FBool(v, num) ==
    IF v.t = "bool" THEN Ret(v)
    ELSE IF v.t = "str" /\ Lower(v.s) \in {s_true, s_false}
    THEN Ret(VBool(Lower(v.s) = s_true))
    ELSE IF num.exc # NoExc THEN num
    ELSE Ret(VBool(num.v.ip # 0 \/ num.v.fr # <<>>))

FList(v) ==
    CASE v.t = "list" -> Ret(v)
      [] v.t = "str" -> FromParse(ParseList(v.s))
      [] OTHER -> Raise("TypeError")

ApplyFunc(func, v) ==
    CASE func = "id" -> Ret(v)
      [] func = "str" -> Ret(VStr(PyStr(v)))
      [] func = "float" -> ToFloat(v)
      [] func = "fint" -> FInt(v, ToFloat(v))
      [] func = "fbool" -> FBool(v, ToFloat(v))
      [] func = "flist" -> FList(v)

(***************************************************************************)
(* Warnings                                                                *)
(***************************************************************************)
Warning(cat, kind) == [cat |-> cat, kind |-> kind]
W_EmptyValue == Warning("EmptyConfigurationKeyWarning", "empty value")
W_BadValue == Warning("BadUserConfigurationValueWarning", "bad value")
W_WrongType == Warning("WrongConfigurationTypeWarning", "wrong type")
W_DeprecatedSection == Warning("UnknownConfigurationKeyWarning", "deprecated section")
W_UnknownRange == Warning("UnknownConfigurationKeyWarning", "unknown range feature")
W_DeprecatedKey == Warning("UserWarning", "deprecated key")
W_UnknownFilteringKey == Warning("UnknownConfigurationKeyWarning", "unknown filtering key")
W_BadUserKey == Warning("BadUserConfigurationKeyWarning", "bad user key")
W_UnknownSection == Warning("UnknownConfigurationKeyWarning", "unknown section")
W_UnknownKey == Warning("UnknownConfigurationKeyWarning", "unknown key")

(***************************************************************************)
(* verify_section_key                                                      *)
(***************************************************************************)
Valid == [ok |-> TRUE, warns |-> <<>>, exc |-> NoExc]
Invalid(w) == [ok |-> FALSE, warns |-> <<w>>, exc |-> NoExc]

\* verify_section_key(section, key): True if the combination exists. A key
\* that is no string has no endswith(): the "filtering" branch raises.
verify_section_key(section, key) ==
    IF config_key_exists(section, key) THEN Valid
    ELSE IF section \in {VStr(s_plotting), VStr(s_analysis)}
    THEN Invalid(W_DeprecatedSection)
    ELSE IF section = VStr(s_filtering)
    THEN IF key.t # "str"
         THEN [ok |-> FALSE, warns |-> <<>>, exc |-> "AttributeError"]
         ELSE IF EndsWith(key.s, s_min) \/ EndsWith(key.s, s_max)
         THEN IF ~scalar_feature_exists(SubSeq(key.s, 1, Len(key.s) - 4))
              THEN Invalid(W_UnknownRange)
              ELSE Valid
         ELSE IF key.s = k_limit_events_auto THEN Invalid(W_DeprecatedKey)
         ELSE Invalid(W_UnknownFilteringKey)
    ELSE IF section = VStr(s_user)
    THEN IF key.t # "str" THEN Invalid(W_BadUserKey)
         ELSE IF Len(Strip(key.s)) = 0 THEN Invalid(W_BadUserKey)
         ELSE Valid
    ELSE IF ~(section.t = "str" /\ section.s \in config_keys)
    THEN Invalid(W_UnknownSection)
    ELSE Invalid(W_UnknownKey)

(***************************************************************************)
(* ConfigurationDict                                                       *)
(***************************************************************************)
\* the data of an empty dictionary
EmptyData == [x \in {} |-> None]

Put(data, k, v) == [x \in (DOMAIN data) \cup {k} |-> IF x = k THEN v ELSE data[x]]
Del(data, k) == [x \in (DOMAIN data) \ {k} |-> data[x]]

\* a ConfigurationDict object: its section attribute and the data of UserDict
Dict(own, section, data) ==
    [t |-> "dict", own |-> own, section |-> section, data |-> data]

\* Python's truth value of the section attribute (None or a string)
Truthy(v) == v.t = "str" /\ Len(v.s) > 0

\* the outcome of a method: the object after it, the warnings it emitted, the
\* exception it raised and the value it returned
Outcome(self, warns, exc, ret) ==
    [d |-> self, warns |-> warns, exc |-> exc, ret |-> ret]

\* a _k that forgets to convert
k_AsGiven(key) == key

\* ConfigurationDict._k: convert a key to lower case
_k(key) == IF key.t = "str" THEN VStr(Lower(key.s)) ELSE key

\* ConfigurationDict.__getitem__
ConfigurationDict__getitem__(self, key) ==
    IF _k(key) \in DOMAIN self.data
    THEN Outcome(self, <<>>, NoExc, self.data[_k(key)])
    ELSE Outcome(self, <<>>, "KeyError", None)

\* an empty-string check that never refuses
IsEmptyValue_Never(value) == FALSE

\* __setitem__, "check for empty string values": asked only for a valid key of
\* a dictionary with a section
IsEmptyValue(value) == value.t = "str" /\ Len(value.s) = 0

\* __setitem__, "if value is None"
IsBadValue(value) == value = None

\* __setitem__, the end: store the converted value unless the conversion raised
StoreConverted(self, k, warns, conv) ==
    IF conv.exc # NoExc THEN Outcome(self, warns, conv.exc, None)
    ELSE Outcome([self EXCEPT !.data = Put(@, k, conv.v)], warns, NoExc, None)

\* __setitem__, "if typ is not None and not isinstance(value, typ)"
TypeWarning(typ, value) ==
    IF typ # "any" /\ ~IsInstance(value, typ) THEN <<W_WrongType>> ELSE <<>>

\* __setitem__, "if valid": only valid keys are set, converted where the
\* dictionary has a section
SetIfValid(self, k, value, valid, warns) ==
    IF ~valid THEN Outcome(self, warns, NoExc, None)
    ELSE IF Truthy(self.section)
    THEN StoreConverted(self, k,
            warns \o TypeWarning(get_config_value_type(self.section, k), value),
            ApplyFunc(get_config_value_func(self.section, k), value))
    ELSE StoreConverted(self, k, warns, Ret(value))

\* __setitem__ after the key check: vr is verify_section_key's verdict (Valid
\* for a dictionary without section); empty tells whether the empty-string
\* check refuses the value
SetVerified(self, k, value, vr, empty) ==
    IF vr.exc # NoExc THEN Outcome(self, vr.warns, vr.exc, None)
    ELSE SetIfValid(self, k, value,
            vr.ok /\ ~empty /\ ~IsBadValue(value),
            vr.warns \o (IF empty THEN <<W_EmptyValue>> ELSE <<>>)
                     \o (IF IsBadValue(value) THEN <<W_BadValue>> ELSE <<>>))

\* an assignment that stores whatever the key check says
SetChecked_Unverified(self, k, value, vr) ==
    SetVerified(self, k, value, Valid, IsEmptyValue(value))

SetChecked(self, k, value, vr) ==
    SetVerified(self, k, value, vr, vr.ok /\ IsEmptyValue(value))

\* ConfigurationDict.__setitem__
ConfigurationDict__setitem__(self, key, value) ==
    IF Truthy(self.section)
    THEN SetChecked(self, _k(key), value, verify_section_key(self.section, _k(key)))
    ELSE SetVerified(self, _k(key), value, Valid, FALSE)

\* ConfigurationDict.__delitem__
ConfigurationDict__delitem__(self, key) ==
    IF _k(key) \in DOMAIN self.data
    THEN Outcome([self EXCEPT !.data = Del(@, _k(key))], <<>>, NoExc, None)
    ELSE Outcome(self, <<>>, "KeyError", None)

\* ConfigurationDict.__contains__
ConfigurationDict__contains__(self, key) == _k(key) \in DOMAIN self.data

\* ConfigurationDict.get(key, default): Mapping.get on the lower-case key
GetOr(self, r, default) ==
    IF r.exc = "KeyError" THEN Outcome(self, <<>>, NoExc, default) ELSE r

ConfigurationDict_get(self, key, default) ==
    GetOr(self, ConfigurationDict__getitem__(self, _k(key)), default)

\* ConfigurationDict.pop(key[, default]): MutableMapping.pop on the lower-case
\* key; hasdefault tells whether a default was passed
PopFound(self, k, hasdefault, default, r) ==
    IF r.exc = "KeyError"
    THEN IF hasdefault THEN Outcome(self, <<>>, NoExc, default) ELSE r
    ELSE [ConfigurationDict__delitem__(self, k) EXCEPT !.ret = r.ret]

ConfigurationDict_pop(self, key, hasdefault, default) ==
    PopFound(self, _k(key), hasdefault, default,
             ConfigurationDict__getitem__(self, _k(key)))

\* ConfigurationDict.setdefault(key, default): MutableMapping.setdefault on the
\* lower-case key; the default is returned also where the assignment is refused
SetDefaultFound(self, k, default, r) ==
    IF r.exc = "KeyError"
    THEN [ConfigurationDict__setitem__(self, k, default) EXCEPT !.ret = default]
    ELSE r

ConfigurationDict_setdefault(self, key, default) ==
    SetDefaultFound(self, _k(key), default,
                    ConfigurationDict__getitem__(self, _k(key)))

\* a further call in a method: the warnings add up, its exception is the
\* method's
Then(acc, r) == Outcome(r.d, acc.warns \o r.warns, r.exc, r.ret)

\* one __setitem__ of a loop; an exception ends the loop
SetStep(acc, key, value) ==
    IF acc.exc # NoExc THEN acc
    ELSE Then(acc, ConfigurationDict__setitem__(acc.d, key, value))

RECURSIVE SetAll(_, _)
SetAll(acc, E) ==
    IF Len(E) = 0 THEN acc ELSE SetAll(SetStep(acc, E[1][1], E[1][2]), Tail(E))

\* ConfigurationDict.update(E, **F): __setitem__ for every key of E, then of F
\* (a dictionary argument is the sequence of its <<key, value>> items)
ConfigurationDict_update(self, E, F) ==
    SetAll(Outcome(self, <<>>, NoExc, None), E \o F)

\* ConfigurationDict._convert_keys: pop every key and set it again
RECURSIVE ConvertLoop(_, _)
ConvertPopped(acc, keys, k, p) ==
    IF p.exc # NoExc THEN Outcome(acc.d, acc.warns, p.exc, None)
    ELSE ConvertLoop(SetStep(Outcome(p.d, acc.warns, NoExc, None), k, p.ret),
                     keys \ {k})

ConvertKey(acc, keys, k) ==
    ConvertPopped(acc, keys, k, ConfigurationDict_pop(acc.d, k, FALSE, None))

ConvertLoop(acc, keys) ==
    IF keys = {} \/ acc.exc # NoExc THEN acc
    ELSE ConvertKey(acc, keys, CHOOSE x \in keys : TRUE)

_convert_keys(self) ==
    ConvertLoop(Outcome(self, <<>>, NoExc, None), DOMAIN self.data)

\* ConfigurationDict(section, mapping, **kwargs): UserDict.__init__ updates the
\* empty dictionary with the mapping and the keywords, then _convert_keys
ThenConvert(u) == IF u.exc # NoExc THEN u ELSE Then(u, _convert_keys(u.d))

ConfigurationDict__init__(section, mapping, kwargs) ==
    ThenConvert(ConfigurationDict_update(Dict("new", section, EmptyData),
                                         mapping, kwargs))

(***************************************************************************)
(* The text codec                                                          *)
(***************************************************************************)
Quotes == {"'", "\""}

\* what keyval_str2typ hands back: a <<var, val>> pair, nothing at all (the
\* function falls off its end and returns None), or an exception
Pair(var, val) == [pair |-> TRUE, var |-> var, val |-> val, exc |-> NoExc]
NoPair == [pair |-> FALSE, var |-> None, val |-> None, exc |-> NoExc]
PairRaise(e) == [pair |-> FALSE, var |-> None, val |-> None, exc |-> e]

\* a heuristic that never reads a number
FloatOrString_Keep(var, val, pf) == Pair(var, VStr(val))

\* keyval_str2typ, the float branch: "try float(...) except ValueError"
FloatOrString(var, val, pf) == IF pf.ok THEN Pair(var, pf.v) ELSE Pair(var, VStr(val))

\* keyval_str2typ, the list branch: float(v) may raise ValueError
ListOrRaise(var, pl) == IF pl.ok THEN Pair(var, pl.v) ELSE PairRaise("ValueError")

\* keyval_str2typ for a stripped value
GuessType(var, val) ==
    IF Len(var) # 0 /\ Len(val) # 0
    THEN IF StartsWith(val, <<"[">>) /\ EndsWith(val, <<"]">>)
         THEN ListOrRaise(var, ParseList(val))
         ELSE IF Lower(val) \in {s_true, s_y} THEN Pair(var, VBool(TRUE))
         ELSE IF Lower(val) \in {s_false, s_n} THEN Pair(var, VBool(FALSE))
         ELSE IF val[1] \in Quotes /\ val[Len(val)] \in Quotes
         THEN Pair(var, VStr(Strip(StripChars(StripChars(val, {"'"}), {"\""}))))
         ELSE IF scalar_feature_exists(val) THEN Pair(var, VStr(val))
         ELSE FloatOrString(var, val, ParseFloat(Replace(val, ",", ".")))
    ELSE NoPair

\* keyval_str2typ(var, val): var is a string, val any value
keyval_str2typ(var, val) ==
    IF val.t # "str" THEN Pair(Strip(var), val)
    ELSE GuessType(Lower(Strip(var)), Strip(val.s))

\* a format that drops the fractional digits of a float
Typ2Str_Truncating(val) ==
    IF val.t = "float" THEN PyStr(VInt(FloatToInt(val))) ELSE PyStr(val)

\* keyval_typ2str(var, val)[1]: the value as a string
RECURSIVE Typ2Str(_)
RECURSIVE JoinTyp2Str(_)
JoinTyp2Str(items) ==
    IF Len(items) = 0 THEN <<>>
    ELSE IF Len(items) = 1 THEN Typ2Str(items[1])
    ELSE Typ2Str(items[1]) \o <<",", " ">> \o JoinTyp2Str(Tail(items))

Typ2Str(val) ==
    IF val.t = "list" THEN <<"[">> \o JoinTyp2Str(val.items) \o <<"]">>
    ELSE IF val.t = "float" THEN FormatFloat(val)
    ELSE PyStr(val)

\* keyval_typ2str(var, val): <<varout, valout>>
keyval_typ2str(var, val) == <<Strip(var), Typ2Str(val)>>

\* file.readlines(): the lines of a text
ReadLines(text) == Split(text, "\n")

\* the state of load_from_file's loop: the dictionary cfg, the current section
\* (Unbound before the first header) and the exception that ended the loop
Unbound == [t |-> "unbound"]
Loading(cfg, sec, exc) == [cfg |-> cfg, sec |-> sec, exc |-> exc]

\* load_from_file, "cfg[sec][var] = val" for a <<var, val>> that is no empty
\* string
StoreLoaded(st, var, val) ==
    IF Len(var) # 0 /\ Len(PyStr(val)) # 0
    THEN [st EXCEPT !.cfg.data[st.sec] =
             ConfigurationDict__setitem__(@, VStr(var), val).d]
    ELSE st

\* load_from_file, the unknown parameter: "var, val = keyval_str2typ(var, val)"
\* cannot unpack None
StoreGuessed(st, g) ==
    IF g.exc # NoExc THEN [st EXCEPT !.exc = g.exc]
    ELSE IF ~g.pair THEN [st EXCEPT !.exc = "TypeError"]
    ELSE StoreLoaded(st, g.var, g.val)

\* load_from_file, the known parameter: "val = convfunc(val)"
StoreConvertedLine(st, var, conv) ==
    IF conv.exc # NoExc THEN [st EXCEPT !.exc = conv.exc]
    ELSE StoreLoaded(st, var, conv.v)

\* load_from_file, a "var = val" line after the stripping; the name sec is not
\* bound before the first section header
LoadKeyVal(st, var, val) ==
    IF Len(val) = 0 THEN st
    ELSE IF st.sec = Unbound THEN [st EXCEPT !.exc = "UnboundLocalError"]
    ELSE IF config_key_exists(st.sec, VStr(var))
    THEN StoreConvertedLine(st, var,
            ApplyFunc(get_config_value_func(st.sec, VStr(var)), VStr(val)))
    ELSE StoreGuessed(st, keyval_str2typ(var, VStr(val)))

LoadSplit(st, parts) ==
    LoadKeyVal(st, Lower(Strip(parts[1])),
               Strip(StripChars(StripChars(parts[2], {"'", " "}), {"\"", " "})))

\* load_from_file, a section header "[sec]"
LoadHeader(st, sec) ==
    IF ConfigurationDict__contains__(st.cfg, sec)
    THEN [st EXCEPT !.sec = sec]
    ELSE [st EXCEPT !.sec = sec,
                    !.cfg = ConfigurationDict__setitem__(
                               @, sec, ConfigurationDict__init__(None, <<>>, <<>>).d).d]

\* load_from_file, one line without its comment and surrounding whitespace
LoadStripped(st, line) ==
    IF Len(line) = 0 THEN st
    ELSE IF StartsWith(line, <<"[">>) /\ EndsWith(line, <<"]">>)
    THEN LoadHeader(st, VStr(Lower(SubSeq(line, 2, Len(line) - 1))))
    ELSE IF Positions(line, "=") = {} THEN st
    ELSE LoadSplit(st, Split1(line, "="))

RECURSIVE LoadLines(_, _)
LoadLines(st, lines) ==
    IF Len(lines) = 0 \/ st.exc # NoExc THEN st
    ELSE LoadLines(LoadStripped(st, Strip(Split(lines[1], "#")[1])), Tail(lines))

Loaded(st) == Outcome(st.cfg, <<>>, st.exc, IF st.exc = NoExc THEN st.cfg ELSE None)

\* load_from_file(cfg_file) on the text of the file
load_from_file(text) ==
    Loaded(LoadLines(Loading(ConfigurationDict__init__(None, <<>>, <<>>).d,
                             Unbound, NoExc),
                     ReadLines(text)))

(***************************************************************************)
(* Object identity.  A list or a dictionary carries the name of the        *)
(* configuration it is reachable from, "new" while it is reachable from     *)
(* none.                                                                   *)
(***************************************************************************)
IsObject(v) == v.t \in {"list", "dict"}

\* the owners of the objects reachable from a value
RECURSIVE Owners(_)
Owners(v) ==
    IF v.t = "list"
    THEN {v.own} \cup UNION {Owners(v.items[i]) : i \in DOMAIN v.items}
    ELSE IF v.t = "dict"
    THEN {v.own} \cup UNION {Owners(v.data[k]) : k \in DOMAIN v.data}
    ELSE {}

\* the value once the configuration x refers to it
RECURSIVE Adopt(_, _)
Adopt(x, v) ==
    IF v.t = "list"
    THEN [t |-> "list", own |-> IF v.own = "new" THEN x ELSE v.own,
          items |-> [i \in DOMAIN v.items |-> Adopt(x, v.items[i])]]
    ELSE IF v.t = "dict"
    THEN [t |-> "dict", own |-> IF v.own = "new" THEN x ELSE v.own,
          section |-> v.section,
          data |-> [k \in DOMAIN v.data |-> Adopt(x, v.data[k])]]
    ELSE v

\* a copy that shares every object with the original
ShallowCopy(v) == v

\* copy.deepcopy: every reachable object is made anew
RECURSIVE DeepCopy(_)
DeepCopy(v) ==
    IF v.t = "list"
    THEN [t |-> "list", own |-> "new",
          items |-> [i \in DOMAIN v.items |-> DeepCopy(v.items[i])]]
    ELSE IF v.t = "dict"
    THEN [t |-> "dict", own |-> "new", section |-> v.section,
          data |-> [k \in DOMAIN v.data |-> DeepCopy(v.data[k])]]
    ELSE v

\* the items of a dictionary, in the order its iteration yields them
RECURSIVE ItemsOf(_, _)
ItemsFrom(data, keys, k) == <<<<k, data[k]>>>> \o ItemsOf(data, keys \ {k})
ItemsOf(data, keys) ==
    IF keys = {} THEN <<>> ELSE ItemsFrom(data, keys, CHOOSE k \in keys : TRUE)

Items(dict) == ItemsOf(dict.data, DOMAIN dict.data)

\* a dictionary of dictionaries as the argument of Configuration.update:
\* newcfg.keys() and, for each, the items of newcfg[sec]
SectionItems(its) == [i \in DOMAIN its |-> <<its[i][1], Items(its[i][2])>>]
AsMapping(dict) == SectionItems(Items(dict))

(***************************************************************************)
(* Configuration                                                           *)
(***************************************************************************)
\* the attributes of a Configuration
Conf(disable_checks, _cfg) ==
    [t |-> "Configuration", disable_checks |-> disable_checks, _cfg |-> _cfg]

\* "sec in dfn.config_keys"
InConfigKeys(sec) == sec.t = "str" /\ sec.s \in config_keys

\* a section that is checked whatever disable_checks says
SectionOf_Always(self, sec) == sec

\* "section = None if self.disable_checks else sec"
SectionOf(self, sec) == IF self.disable_checks THEN None ELSE sec

\* the section object stored under a name, after a method of it ran with
\* outcome r
PutBack(acc, sec, r) ==
    Outcome([acc.d EXCEPT !._cfg.data[_k(sec)] = r.d],
            acc.warns \o r.warns, r.exc, r.ret)

\* "self._cfg[sec] = ConfigurationDict(section=section)"
Stored(self, warns, r) ==
    Outcome([self EXCEPT !._cfg = r.d], warns \o r.warns, r.exc, None)

ProvideMade(self, sec, made) ==
    IF made.exc # NoExc THEN Outcome(self, made.warns, made.exc, None)
    ELSE Stored(self, made.warns,
                ConfigurationDict__setitem__(self._cfg, sec, made.d))

Provide(self, sec) ==
    ProvideMade(self, sec,
                ConfigurationDict__init__(SectionOf(self, sec), <<>>, <<>>))

\* Configuration.__contains__
Configuration__contains__(self, key) ==
    ConfigurationDict__contains__(self._cfg, key)

\* Configuration.__getitem__, "item = self._cfg.__getitem__(sec)"
Found(acc, r) == Outcome(acc.d, acc.warns \o r.warns, r.exc, r.ret)

GetSection(acc, sec) ==
    IF acc.exc # NoExc THEN acc
    ELSE Found(acc, ConfigurationDict__getitem__(acc.d._cfg, sec))

\* a __getitem__ that creates a section for whatever name it is asked for
Configuration__getitem__Any(self, sec) ==
    IF ~Configuration__contains__(self, sec)
    THEN GetSection(Provide(self, sec), sec)
    ELSE GetSection(Outcome(self, <<>>, NoExc, None), sec)

\* Configuration.__getitem__
Configuration__getitem__(self, sec) ==
    IF ~Configuration__contains__(self, sec)
       /\ (InConfigKeys(sec) \/ sec = VStr(s_user))
    THEN GetSection(Provide(self, sec), sec)
    ELSE GetSection(Outcome(self, <<>>, NoExc, None), sec)

\* "self[sec][key] = value": __getitem__, then __setitem__ of the section
SetIn(g, sec, key, value) ==
    IF g.exc # NoExc THEN g
    ELSE PutBack(g, sec, ConfigurationDict__setitem__(g.ret, key, value))

SetKey(self, sec, key, value) ==
    SetIn(Configuration__getitem__(self, sec), sec, key, value)

\* "del self[sec][key]"
DelIn(g, sec, key) ==
    IF g.exc # NoExc THEN g
    ELSE PutBack(g, sec, ConfigurationDict__delitem__(g.ret, key))

DelKey(self, sec, key) == DelIn(Configuration__getitem__(self, sec), sec, key)

\* Configuration.update, "self._cfg[sec].update(newcfg[sec])"
UpdateIn(acc, sec, E) ==
    IF acc.exc # NoExc THEN acc
    ELSE PutBack(acc, sec,
                 ConfigurationDict_update(
                     ConfigurationDict__getitem__(acc.d._cfg, sec).ret, E, <<>>))

\* Configuration.update, one section of newcfg
After(acc, r) == Outcome(r.d, acc.warns \o r.warns, r.exc, r.ret)

\* an update that replaces the section instead of merging into it
UpdateSection_Replace(acc, sec, E) ==
    UpdateIn(After(acc, Provide(acc.d, sec)), sec, E)

UpdateSection(acc, sec, E) ==
    IF ~ConfigurationDict__contains__(acc.d._cfg, sec)
    THEN UpdateIn(After(acc, Provide(acc.d, sec)), sec, E)
    ELSE UpdateIn(acc, sec, E)

RECURSIVE UpdateLoop(_, _)
UpdateLoop(acc, newcfg) ==
    IF Len(newcfg) = 0 \/ acc.exc # NoExc THEN acc
    ELSE UpdateLoop(UpdateSection(acc, newcfg[1][1], newcfg[1][2]), Tail(newcfg))

\* Configuration.update(newcfg); newcfg is the sequence of its
\* <<section, items>> pairs
Configuration_update(self, newcfg) ==
    UpdateLoop(Outcome(self, <<>>, NoExc, None), newcfg)

\* the hard-coded defaults of _init_default_filter_values
DefaultFilterValues ==
    << <<k_remove_invalid_events, VBool(FALSE)>>,
       <<k_enable_filters, VBool(TRUE)>>,
       <<k_limit_events, VInt(0)>>,
       <<k_polygon_filters, VList("new", <<>>)>>,
       <<k_hierarchy_parent, VStr(s_none)>> >>

SetNext(acc, sec, key, value) ==
    IF acc.exc # NoExc THEN acc ELSE After(acc, SetKey(acc.d, sec, key, value))

RECURSIVE SetKeys(_, _, _)
SetKeys(acc, sec, items) ==
    IF Len(items) = 0 THEN acc
    ELSE SetKeys(SetNext(acc, sec, VStr(items[1][1]), items[1][2]), sec,
                 Tail(items))

\* a check of the defaults that never raises
AllDefaulted_Never(acc, g) ==
    IF g.exc # NoExc THEN After(acc, g)
    ELSE Outcome(g.d, acc.warns \o g.warns, NoExc, None)

\* _init_default_filter_values, "if item[0] not in self["filtering"]: raise"
AllDefaulted(acc, g) ==
    IF g.exc # NoExc THEN After(acc, g)
    ELSE IF \E item \in CFG_ANALYSIS_filtering :
               ~ConfigurationDict__contains__(g.ret, VStr(item))
    THEN Outcome(g.d, acc.warns \o g.warns, "KeyError", None)
    ELSE Outcome(g.d, acc.warns \o g.warns, NoExc, None)

CheckDefaults(acc) ==
    IF acc.exc # NoExc THEN acc
    ELSE AllDefaulted(acc, Configuration__getitem__(acc.d, VStr(s_filtering)))

\* Configuration._init_default_filter_values
_init_default_filter_values(self) ==
    CheckDefaults(SetKeys(Outcome(self, <<>>, NoExc, None), VStr(s_filtering),
                          DefaultFilterValues))

\* Configuration.__init__, "self.update(cfg)"
UpdateNext(acc, newcfg) ==
    IF acc.exc # NoExc THEN acc ELSE After(acc, Configuration_update(acc.d, newcfg))

\* Configuration.__init__, "self.update(load_from_file(f))"
UpdateLoaded(acc, l) ==
    IF l.exc # NoExc THEN Outcome(acc.d, acc.warns, l.exc, None)
    ELSE UpdateNext(acc, AsMapping(l.ret))

RECURSIVE LoadFiles(_, _)
LoadFiles(acc, files) ==
    IF Len(files) = 0 \/ acc.exc # NoExc THEN acc
    ELSE LoadFiles(UpdateLoaded(acc, load_from_file(files[1])), Tail(files))

\* Configuration(files, cfg, disable_checks); ret is the new object
Constructed(acc) ==
    Outcome(acc.d, acc.warns, acc.exc, IF acc.exc = NoExc THEN acc.d ELSE None)

Configuration__init__(files, cfg, disable_checks) ==
    Constructed(
        LoadFiles(
            UpdateNext(
                _init_default_filter_values(
                    Conf(disable_checks,
                         ConfigurationDict__init__(None, <<>>, <<>>).d)),
                cfg),
            files))

\* Configuration.copy
copy(self) == Configuration__init__(<<>>, AsMapping(DeepCopy(self._cfg)), FALSE)

\* a get that asks for the section before it looks whether it is there
Configuration_get_Asking(self, key, other) ==
    IF Configuration__getitem__(self, key).exc = NoExc
    THEN Configuration__getitem__(self, key)
    ELSE Outcome(self, <<>>, NoExc, other)

\* Configuration.get(key, other)
Configuration_get(self, key, other) ==
    IF Configuration__contains__(self, key)
    THEN Configuration__getitem__(self, key)
    ELSE Outcome(self, <<>>, NoExc, other)

\* Configuration.keys()
Configuration_keys(self) == DOMAIN self._cfg.data

\* Configuration.__iter__: the section names, as a value
Configuration__iter__(self) == [t |-> "names", names |-> DOMAIN self._cfg.data]

\* Configuration.__len__
Configuration__len__(self) == VInt(Cardinality(DOMAIN self._cfg.data))

\* sorted(list of strings)
RECURSIVE Sorted(_)
SortedFrom(S, m) == <<m>> \o Sorted(S \ {m})
Sorted(S) ==
    IF S = {} THEN <<>>
    ELSE SortedFrom(S, CHOOSE m \in S : \A o \in S \ {m} : StrLess(m, o))

\* tostring, the "var = val" lines of a section
RECURSIVE KeyLines(_, _)
KeyLine(kv) == kv[1] \o <<" ", "=", " ">> \o kv[2] \o <<"\n">>
KeyLines(section, ikeys) ==
    IF Len(ikeys) = 0 THEN <<>>
    ELSE KeyLine(keyval_typ2str(ikeys[1], section.data[VStr(ikeys[1])]))
         \o KeyLines(section, Tail(ikeys))

\* tostring, the lines of one section: header, keys, empty line
SectionLines(key, section) ==
    <<"[">> \o key \o <<"]", "\n">>
    \o KeyLines(section, Sorted({k.s : k \in DOMAIN section.data}))
    \o <<"\n">>

RECURSIVE AllLines(_, _)
AllLines(self, keys) ==
    IF Len(keys) = 0 THEN <<>>
    ELSE SectionLines(keys[1], ConfigurationDict__getitem__(self._cfg, VStr(keys[1])).ret)
         \o AllLines(self, Tail(keys))

\* tostring on keys that are not all strings: sorting mixed keys raises
\* TypeError, "var.strip()" on a key that is no string raises AttributeError
NonStringKeys(self, keys) ==
    \E k \in keys :
        \E ik \in DOMAIN self._cfg.data[_k(VStr(k))].data : ik.t # "str"

MixedKeys(self, keys) ==
    \E k \in keys :
        \E ik, jk \in DOMAIN self._cfg.data[_k(VStr(k))].data : ik.t # jk.t

\* tostring, "section = self[key]" for each exported key: the configuration
\* after these accesses
RECURSIVE Accessed(_, _)
Accessed(self, keys) ==
    IF Len(keys) = 0 THEN self
    ELSE Accessed(Configuration__getitem__(self, VStr(keys[1])).d, Tail(keys))

ToStringOf(self, keys) ==
    IF MixedKeys(self, keys) THEN Outcome(self, <<>>, "TypeError", None)
    ELSE IF NonStringKeys(self, keys) THEN Outcome(self, <<>>, "AttributeError", None)
    ELSE Outcome(Accessed(self, Sorted(keys)), <<>>, NoExc,
                 VStr(AllLines(self, Sorted(keys))))

\* Configuration.tostring(sections); sections is None or a set of names
Configuration_tostring(self, sections) ==
    IF sections = None
    THEN ToStringOf(self, {k.s : k \in Configuration_keys(self)})
    ELSE ToStringOf(self, {k \in sections.names :
                              Configuration__contains__(self, VStr(k))})

(***************************************************************************)
(* The record of the last operation                                        *)
(***************************************************************************)
ConfOp(op, on, sec, key, val, r) ==
    [op |-> op, on |-> on, sec |-> sec, key |-> key, val |-> val,
     warns |-> r.warns, exc |-> r.exc, ret |-> r.ret]

Op(op, on, key, val, r) == ConfOp(op, on, None, key, val, r)

Idle == [op |-> "idle", on |-> "none", sec |-> None, key |-> None, val |-> None,
         warns |-> <<>>, exc |-> NoExc, ret |-> None]

ConfNames == {"cfg", "c"}
NoConfs == [n \in ConfNames |-> None]
NoFile == <<>>

(***************************************************************************)
(* The dictionary-level runs: one ConfigurationDict and its methods        *)
(***************************************************************************)
\* the largest number of entries of the stand-alone dictionary
MaxDictLen == 2

str_x == <<"x">>
f_1_5 == VFloat(FALSE, 1, <<5>>)

DictSections ==
    {None, VStr(s_setup), VStr(s_filtering), VStr(s_user), VStr(s_plotting),
     VStr(s_bogus)}

DictKeys ==
    {VStr(k_medium), VStr(Upper(k_medium)), VStr(k_flow_rate), VStr(k_foo),
     VInt(5), VStr(s_deform \o s_min)}

DictValues == {None, VStr(<<>>), VStr(str_x), VInt(2)}

\* the mappings a dictionary is constructed from and updated with
DictMappings ==
    {<<>>,
     <<<<VStr(Upper(k_medium)), VStr(str_x)>>>>,
     <<<<VStr(Upper(k_medium)), VStr(str_x)>>, <<VStr(k_medium), VInt(2)>>>>,
     <<<<VStr(k_flow_rate), VInt(2)>>, <<VStr(k_foo), None>>>>,
     <<<<VStr(k_foo), VInt(2)>>, <<VInt(5), VStr(<<>>)>>>>}

DictKwargs == {<<>>, <<<<VStr(k_foo), VInt(2)>>>>}

Fits(r) == Cardinality(DOMAIN r.d.data) <= MaxDictLen

\* the stand-alone dictionary after a call with outcome r
DictStep(op, key, val, r) ==
    /\ Fits(r)
    /\ d' = r.d
    /\ last' = Op(op, "d", key, val, r)
    /\ UNCHANGED <<cfgs, file, CFG_ANALYSIS>>

DictMade(section, mapping, r) ==
    /\ r.exc = NoExc
    /\ d = r.d
    /\ last = Op("init", "d", section, mapping, r)

DictInit ==
    /\ CFG_ANALYSIS = AnalysisOptions
    /\ \E section \in DictSections, mapping \in DictMappings :
          DictMade(section, mapping, ConfigurationDict__init__(section, mapping, <<>>))
    /\ cfgs = NoConfs
    /\ file = NoFile

\* d[key] = value
DSetItem ==
    \E key \in DictKeys, value \in DictValues :
        DictStep("setitem", key, value, ConfigurationDict__setitem__(d, key, value))

\* d.update(E, **F)
DUpdate ==
    \E E \in DictMappings, F \in DictKwargs :
        DictStep("update", None, <<E, F>>, ConfigurationDict_update(d, E, F))

\* d.setdefault(key, default)
DSetDefault ==
    \E key \in DictKeys, default \in {None, VInt(2)} :
        DictStep("setdefault", key, default,
                 ConfigurationDict_setdefault(d, key, default))

\* d.pop(key) and d.pop(key, default)
DPop ==
    \E key \in DictKeys, hasdefault \in BOOLEAN :
        DictStep("pop", key, VBool(hasdefault),
                 ConfigurationDict_pop(d, key, hasdefault, VInt(2)))

\* del d[key]
DDelItem ==
    \E key \in DictKeys :
        DictStep("delitem", key, None, ConfigurationDict__delitem__(d, key))

DictNext == DSetItem \/ DUpdate \/ DSetDefault \/ DPop \/ DDelItem

SpecDict == DictInit /\ [][DictNext]_vars

(***************************************************************************)
(* Properties of ConfigurationDict (checked under SpecDict)                *)
(***************************************************************************)
Range(seq) == {seq[i] : i \in DOMAIN seq}

\* the lower-case form of a key, written out
LowKey(k) == IF k.t = "str" THEN VStr(Lower(k.s)) ELSE k

\* the case variants of a key: lower, upper and capitalised
CaseVariants(k) ==
    IF k.t = "str"
    THEN {VStr(Lower(k.s)), VStr(Upper(k.s)),
          VStr([i \in 1..Len(k.s) |->
                  IF i = 1 THEN UpperChar(k.s[i]) ELSE LowerChar(k.s[i])])}
    ELSE {k}

\* the last operation was an assignment that was accepted
Accepted == last.exc = NoExc /\ \A i \in DOMAIN last.warns : last.warns[i] = W_WrongType

\* the value an accepted assignment stores
StoredValue(section, key, value) ==
    IF Truthy(section)
    THEN ApplyFunc(get_config_value_func(section, LowKey(key)), value).v
    ELSE value

CheckedSet == last'.op = "setitem" /\ Truthy(d.section)

\* C5 as stated: in a schema-checked dictionary an assignment of None or of the
\* empty string (that returns) leaves the dictionary as it was and emits the
\* bad-value warning for None, the empty-value warning for the empty string.
C5_AsStated ==
    [][(CheckedSet /\ last'.exc = NoExc /\ last'.val \in {None, VStr(<<>>)})
       => /\ d' = d
          /\ last'.val = None => W_BadValue \in Range(last'.warns)
          /\ last'.val = VStr(<<>>) => W_EmptyValue \in Range(last'.warns)]_vars

\* C5 amended: for a string key, an assignment of None or of the empty string
\* returns and leaves the dictionary as it was; None emits the bad-value
\* warning; the empty string emits the empty-value warning exactly when the
\* (section, key) pair passes verify_section_key, and otherwise only the
\* warning of that validation.
C5_RefusesNoneAndEmpty ==
    [][(CheckedSet /\ last'.key.t = "str" /\ last'.val \in {None, VStr(<<>>)})
       => LET vr == verify_section_key(d.section, LowKey(last'.key))
          IN /\ last'.exc = NoExc
             /\ d' = d
             /\ last'.val = None => last'.warns = vr.warns \o <<W_BadValue>>
             /\ last'.val = VStr(<<>>) =>
                   /\ W_EmptyValue \in Range(last'.warns) <=> vr.ok
                   /\ vr.ok => last'.warns = <<W_EmptyValue>>
                   /\ ~vr.ok => last'.warns = vr.warns]_vars

\* C5 witness: the empty string was refused for a valid key that holds a value
C5_Witness ==
    /\ last.op = "setitem" /\ Truthy(d.section)
    /\ last.val = VStr(<<>>) /\ last.warns = <<W_EmptyValue>>
    /\ LowKey(last.key) \in DOMAIN d.data

\* an assignment that fails validation: the pair is not accepted, or the
\* value is None, or it is the empty string in a dictionary with a section
FailsValidation(self, key, value) ==
    \/ value = None
    \/ Truthy(self.section)
       /\ (value = VStr(<<>>) \/ ~verify_section_key(self.section, LowKey(key)).ok)

\* C10 as stated: an assignment that fails validation completes normally,
\* leaves the dictionary unchanged and emits a warning, for every section,
\* key (string or not) and value.
C10_NeverRaises ==
    [][(last'.op = "setitem" /\ FailsValidation(d, last'.key, last'.val))
       => /\ last'.exc = NoExc
          /\ d' = d
          /\ last'.warns # <<>>]_vars

(***************************************************************************)
(* The configuration-level runs: one Configuration and its operations      *)
(***************************************************************************)
\* the object x refers to after an operation: what was new is now reachable
\* from x
AdoptConf(x, conf) == [conf EXCEPT !._cfg = Adopt(x, @)]

Sections == {VStr(s_setup), VStr(Upper(s_setup)), VStr(s_user), VStr(s_bogus)}

KeyPairs ==
    {<<VStr(s_setup), VStr(k_flow_rate)>>, <<VStr(s_setup), VStr(k_medium)>>,
     <<VStr(Upper(s_setup)), VStr(k_medium)>>, <<VStr(s_setup), VStr(k_foo)>>,
     <<VStr(s_user), VStr(Upper(k_foo))>>, <<VStr(s_bogus), VStr(k_foo)>>}

list_1_5 == VList("new", <<f_1_5>>)

Values == {None, VInt(2), VStr(<<>>)}

\* a dictionary argument with one section
OneSection(sec, items) == <<<<VStr(sec), items>>>>

\* the dictionaries a configuration is updated with
Mappings ==
    {<<>>,
     OneSection(s_setup, <<<<VStr(k_flow_rate), VInt(2)>>>>),
     OneSection(s_setup, <<<<VStr(k_flow_rate), f_1_5>>>>),
     OneSection(s_setup, <<<<VStr(k_medium), VInt(2)>>>>),
     OneSection(s_setup, <<<<VStr(k_flow_rate), VInt(2)>>, <<VStr(k_foo), VInt(2)>>>>),
     OneSection(s_setup, <<<<VStr(k_medium), None>>>>),
     OneSection(Upper(s_setup), <<<<VStr(k_medium), VInt(2)>>>>),
     OneSection(Upper(s_setup), <<>>),
     OneSection(s_user, <<<<VStr(k_foo), list_1_5>>>>)
        \o OneSection(s_bogus, <<<<VStr(k_foo), VInt(2)>>>>)}

\* the configuration x after an operation with outcome r
ConfStep(x, op, sec, key, val, r) ==
    /\ cfgs' = [cfgs EXCEPT ![x] = AdoptConf(x, r.d)]
    /\ last' = ConfOp(op, x, sec, key, val, r)
    /\ UNCHANGED <<d, file, CFG_ANALYSIS>>

\* x[sec][key] = value
SetKeyOn(x, P, V) ==
    \E p \in P, value \in V :
        ConfStep(x, "setkey", p[1], p[2], value, SetKey(cfgs[x], p[1], p[2], value))

\* del x[sec][key]
DelKeyOn(x, P) ==
    \E p \in P :
        ConfStep(x, "delkey", p[1], p[2], None, DelKey(cfgs[x], p[1], p[2]))

\* x[sec]
GetItemOn(x, S) ==
    \E sec \in S :
        ConfStep(x, "getitem", sec, None, None, Configuration__getitem__(cfgs[x], sec))

\* x.update(newcfg)
UpdateOn(x, M) ==
    \E newcfg \in M :
        ConfStep(x, "update", None, None, newcfg, Configuration_update(cfgs[x], newcfg))

ConfMade(disable_checks, r) ==
    /\ r.exc = NoExc
    /\ cfgs = [NoConfs EXCEPT !["cfg"] = AdoptConf("cfg", r.ret)]
    /\ last = ConfOp("Configuration", "cfg", None, None, VBool(disable_checks), r)

\* cfg = Configuration(disable_checks=...)
ConfInit ==
    /\ CFG_ANALYSIS = AnalysisOptions
    /\ \E disable_checks \in BOOLEAN :
          ConfMade(disable_checks, Configuration__init__(<<>>, <<>>, disable_checks))
    /\ d = None
    /\ file = NoFile

CSetKey == SetKeyOn("cfg", KeyPairs, Values)
CDelKey == DelKeyOn("cfg", KeyPairs)
CGetItem == GetItemOn("cfg", Sections)
CUpdate == UpdateOn("cfg", Mappings)

Next == CSetKey \/ CDelKey \/ CGetItem \/ CUpdate

Spec == ConfInit /\ [][Next]_vars

(***************************************************************************)
(* Properties of Configuration (checked under Spec)                        *)
(***************************************************************************)
\* the sections of a configuration, by their stored name
SectionsOf(conf) == conf._cfg.data

\* the keys a dictionary argument names for the section stored under s
Named(newcfg, s) ==
    UNION {{_k(newcfg[i][2][j][1]) : j \in DOMAIN newcfg[i][2]} :
             i \in {i \in DOMAIN newcfg : _k(newcfg[i][1]) = s}}

\* no section and no key is removed, and what newcfg does not name keeps its
\* value
Merged(old, new, newcfg) ==
    \A s \in DOMAIN old :
        /\ s \in DOMAIN new
        /\ \A k \in DOMAIN old[s].data :
              /\ k \in DOMAIN new[s].data
              /\ k \notin Named(newcfg, s) => new[s].data[k] = old[s].data[k]
        /\ Named(newcfg, s) = {} => new[s].data = old[s].data

\* a dictionary argument that assigns one storable value to one valid key
OneValidKey(newcfg) ==
    /\ Len(newcfg) = 1
    /\ Len(newcfg[1][2]) = 1
    /\ config_key_exists(_k(newcfg[1][1]), _k(newcfg[1][2][1][1]))
    /\ newcfg[1][2][1][2] \notin {None, VStr(<<>>)}

\* the two last operations were updates of the same section with two different
\* valid keys
TwoUpdates(before, after) ==
    /\ before.op = "update" /\ before.exc = NoExc
    /\ after.op = "update" /\ after.exc = NoExc
    /\ OneValidKey(before.val) /\ OneValidKey(after.val)
    /\ _k(before.val[1][1]) = _k(after.val[1][1])
    /\ _k(before.val[1][2][1][1]) # _k(after.val[1][2][1][1])

BothStored(new, before, after) ==
    /\ _k(after.val[1][1]) \in DOMAIN new
    /\ {_k(before.val[1][2][1][1]), _k(after.val[1][2][1][1])}
          \subseteq DOMAIN new[_k(after.val[1][1])].data

\* C2: update is a key-level merge: a stored key that newcfg does not name
\* keeps its value, a section that newcfg does not name is unchanged, no
\* section or key is removed, and two successive updates of one section with
\* two different valid keys leave both keys stored
C2_KeyLevelMerge ==
    [][last'.op = "update" =>
          /\ Merged(SectionsOf(cfgs["cfg"]), SectionsOf(cfgs'["cfg"]), last'.val)
          /\ TwoUpdates(last, last') =>
                BothStored(SectionsOf(cfgs'["cfg"]), last, last')]_vars

\* C8: cfg[sec] returns the section when it is present and creates nothing;
\* when it is absent, a schema-known name or "user" gets a new empty section
\* (checked with section=sec unless disable_checks) that is stored and
\* returned, and any other name raises KeyError and changes nothing
C8_Provisioning ==
    [][last'.op = "getitem" =>
          IF _k(last'.sec) \in DOMAIN SectionsOf(cfgs["cfg"])
          THEN /\ last'.exc = NoExc
               /\ cfgs' = cfgs
               /\ last'.ret = SectionsOf(cfgs["cfg"])[_k(last'.sec)]
          ELSE IF last'.sec.s \in config_keys \cup {s_user}
          THEN /\ last'.exc = NoExc
               /\ last'.ret = Dict("new", SectionOf(cfgs["cfg"], last'.sec), EmptyData)
               /\ SectionsOf(cfgs'["cfg"]) =
                     Put(SectionsOf(cfgs["cfg"]), last'.sec,
                         Dict("cfg", SectionOf(cfgs["cfg"], last'.sec), EmptyData))
               /\ cfgs'["cfg"].disable_checks = cfgs["cfg"].disable_checks
          ELSE /\ last'.exc = "KeyError"
               /\ cfgs' = cfgs]_vars

\* a section was just created by cfg[sec]
C8_Witness ==
    /\ last.op = "getitem"
    /\ last.exc = NoExc
    /\ last.ret = Dict("new", last.sec, EmptyData)
    /\ last.sec \in DOMAIN SectionsOf(cfgs["cfg"])

(***************************************************************************)
(* The runs with a copy: cfg, c = cfg.copy() and operations on both        *)
(***************************************************************************)
CopyPairs == {<<VStr(s_user), VStr(k_foo)>>, <<VStr(s_setup), VStr(k_medium)>>}

CopyValues == {VInt(2), list_1_5}

CopyMappings ==
    {OneSection(s_user, <<<<VStr(k_foo), list_1_5>>>>),
     OneSection(s_setup, <<<<VStr(k_medium), VInt(2)>>>>)}

CopyMade(r) ==
    /\ r.exc = NoExc
    /\ cfgs' = [cfgs EXCEPT !["c"] = AdoptConf("c", r.ret)]
    /\ last' = ConfOp("copy", "c", None, None, None, r)
    /\ UNCHANGED <<d, file, CFG_ANALYSIS>>

\* c = cfg.copy()
Copy == CopyMade(copy(cfgs["cfg"]))

\* the operations on one of the two configurations
OnEither(x) ==
    /\ cfgs[x] # None
    /\ \/ SetKeyOn(x, CopyPairs, CopyValues)
       \/ DelKeyOn(x, CopyPairs)
       \/ GetItemOn(x, {VStr(s_user)})
       \/ UpdateOn(x, CopyMappings)

CopyNext == Copy \/ \E x \in ConfNames : OnEither(x)

SpecCopy == ConfInit /\ [][CopyNext]_vars

\* no list and no dictionary reachable from a configuration is reachable from
\* another one
NoSharing ==
    \A x \in ConfNames : cfgs[x] # None => Owners(cfgs[x]._cfg) \subseteq {x}

\* C3: a configuration and its copy share no section dictionary and no list,
\* and an operation on one of them leaves every section, key and value of the
\* other unchanged
C3_Independent ==
    [][/\ NoSharing'
       /\ \A y \in ConfNames \ {last'.on} : cfgs'[y] = cfgs[y]]_vars

\* the copy holds a list under a key that the original does not have
C3_Witness ==
    /\ cfgs["c"] # None
    /\ last.on = "c" /\ last.op = "setkey" /\ last.exc = NoExc
    /\ VStr(s_user) \in DOMAIN SectionsOf(cfgs["c"])
    /\ VStr(k_foo) \in DOMAIN SectionsOf(cfgs["c"])[VStr(s_user)].data
    /\ SectionsOf(cfgs["c"])[VStr(s_user)].data[VStr(k_foo)].t = "list"
    /\ VStr(s_user) \notin DOMAIN SectionsOf(cfgs["cfg"])

(***************************************************************************)
(* Construction: Configuration(files, cfg, disable_checks) on chosen       *)
(* inputs                                                                  *)
(***************************************************************************)
\* the text of a section header line and of a "key = value" line
Header(sec) == <<"[">> \o sec \o <<"]", "\n">>
Line(key, val) == key \o <<" ", "=", " ">> \o val \o <<"\n">>

\* the file of two lines "[bogus]" and "foo = 1"
BogusFile == <<"[">> \o s_bogus \o <<"]", "\n">> \o k_foo \o <<" ", "=", " ", "1">>

\* the largest number of files of a construction
MaxFiles == 2

FileTexts ==
    {Header(s_filtering) \o Line(k_limit_events, <<"7">>),
     Header(s_setup) \o Line(k_medium, str_x),
     Header(s_setup) \o Line(k_medium, <<"y">>) \o Line(k_flow_rate, <<"2">>),
     BogusFile}

FileLists == UNION {[1..n -> FileTexts] : n \in 0..MaxFiles}

InitMappings ==
    {<<>>,
     OneSection(s_filtering, <<<<VStr(k_limit_events), VInt(2)>>>>),
     OneSection(s_filtering, <<<<VStr(k_polygon_filters), None>>>>),
     OneSection(s_filtering, <<<<VStr(k_hierarchy_parent), VStr(<<>>)>>>>),
     OneSection(s_setup, <<<<VStr(k_medium), VInt(2)>>>>),
     OneSection(Upper(s_setup), <<<<VStr(k_medium), VInt(2)>>>>),
     OneSection(s_user, <<<<VStr(k_foo), list_1_5>>>>),
     OneSection(s_filtering, <<<<VStr(k_foo), VInt(2)>>>>)}

Args(files, cfg, disable_checks) ==
    [t |-> "args", files |-> files, cfg |-> cfg, disable_checks |-> disable_checks]

\* the arguments of a construction are chosen
ArgsInit ==
    /\ CFG_ANALYSIS \in {AnalysisOptions, MoreAnalysisOptions}
    /\ \E files \in FileLists, cfg \in InitMappings, disable_checks \in BOOLEAN :
          last = [Idle EXCEPT !.op = "args",
                              !.val = Args(files, cfg, disable_checks)]
    /\ cfgs = NoConfs
    /\ d = None
    /\ file = NoFile

Built(args, r) ==
    /\ cfgs' = IF r.exc = NoExc
               THEN [cfgs EXCEPT !["cfg"] = AdoptConf("cfg", r.ret)]
               ELSE cfgs
    /\ last' = ConfOp("Configuration", "cfg", None, None, args, r)
    /\ UNCHANGED <<d, file, CFG_ANALYSIS>>

\* cfg = Configuration(files, cfg, disable_checks)
Construct ==
    /\ last.op = "args"
    /\ Built(last.val,
             Configuration__init__(last.val.files, last.val.cfg,
                                   last.val.disable_checks))

SpecConstruct == ArgsInit /\ [][Construct]_vars

\* a construction completed
Completed == last.op = "Configuration" /\ last.exc = NoExc

\* the value stored in a configuration, with the identity of objects left out
Held(conf, s, k) == DeepCopy(SectionsOf(conf)[s].data[k])

Holds(conf, s, k) ==
    s \in DOMAIN SectionsOf(conf) /\ k \in DOMAIN SectionsOf(conf)[s].data

\* C4: after every construction that completes the section "filtering" holds
\* the five default keys, whatever cfg and the files say, and with no inputs
\* their values are False, True, 0, [] and "none"
C4_DefaultsPresent ==
    Completed =>
        /\ \A k \in {k_remove_invalid_events, k_enable_filters, k_limit_events,
                     k_polygon_filters, k_hierarchy_parent} :
              Holds(cfgs["cfg"], VStr(s_filtering), VStr(k))
        /\ (last.val.files = <<>> /\ last.val.cfg = <<>>) =>
              /\ Held(cfgs["cfg"], VStr(s_filtering), VStr(k_remove_invalid_events))
                    = VBool(FALSE)
              /\ Held(cfgs["cfg"], VStr(s_filtering), VStr(k_enable_filters))
                    = VBool(TRUE)
              /\ Held(cfgs["cfg"], VStr(s_filtering), VStr(k_limit_events)) = VInt(0)
              /\ Held(cfgs["cfg"], VStr(s_filtering), VStr(k_polygon_filters))
                    = VList("new", <<>>)
              /\ Held(cfgs["cfg"], VStr(s_filtering), VStr(k_hierarchy_parent))
                    = VStr(s_none)

\* a file and a dictionary changed two defaults, and all five are there
C4_Witness ==
    /\ Completed
    /\ last.val.files # <<>> /\ last.val.cfg # <<>>
    /\ Held(cfgs["cfg"], VStr(s_filtering), VStr(k_limit_events)) = VInt(7)
    /\ Cardinality(DOMAIN SectionsOf(cfgs["cfg"])[VStr(s_filtering)].data) = 5

\* the sources of a construction in the order of their application: the
\* defaults, the dictionary cfg, the content of each file
DefaultsSource ==
    OneSection(s_filtering,
               [i \in DOMAIN DefaultFilterValues |->
                   <<VStr(DefaultFilterValues[i][1]), DefaultFilterValues[i][2]>>])

Sources(args) ==
    <<DefaultsSource, args.cfg>>
    \o [i \in DOMAIN args.files |-> AsMapping(load_from_file(args.files[i]).ret)]

\* where a source names the key k of the section s
Hits(src, s, k) ==
    UNION {{<<i, j>> : j \in {j \in DOMAIN src[i][2] : _k(src[i][2][j][1]) = k}} :
             i \in {i \in DOMAIN src : _k(src[i][1]) = s}}

LastHit(H) ==
    CHOOSE p \in H : \A q \in H : q[1] < p[1] \/ (q[1] = p[1] /\ q[2] <= p[2])

ValueAt(src, p) == src[p[1]][2][p[2]][2]

\* what a dictionary of the section s stores for key k when it is given v
StoredAs(disable_checks, s, k, v) ==
    ConfigurationDict__setitem__(
        Dict("new", IF disable_checks THEN None ELSE s, EmptyData), k, v)

Storable(disable_checks, s, k, v) ==
    /\ StoredAs(disable_checks, s, k, v).exc = NoExc
    /\ k \in DOMAIN StoredAs(disable_checks, s, k, v).d.data

\* the sources that assign a storable value to (s, k)
Assigning(args, s, k) ==
    {n \in DOMAIN Sources(args) :
        /\ Hits(Sources(args)[n], s, k) # {}
        /\ Storable(args.disable_checks, s, k,
                    ValueAt(Sources(args)[n], LastHit(Hits(Sources(args)[n], s, k))))}

Max(S) == CHOOSE n \in S : \A m \in S : m <= n

LastAssigned(args, s, k, n) ==
    DeepCopy(StoredAs(args.disable_checks, s, k,
                      ValueAt(Sources(args)[n],
                              LastHit(Hits(Sources(args)[n], s, k)))).d.data[k])

NamedSections(args) ==
    UNION {{_k(Sources(args)[n][i][1]) : i \in DOMAIN Sources(args)[n]} :
             n \in DOMAIN Sources(args)}

NamedKeys(args) ==
    UNION {UNION {{_k(Sources(args)[n][i][2][j][1]) :
                      j \in DOMAIN Sources(args)[n][i][2]} :
                  i \in DOMAIN Sources(args)[n]} :
             n \in DOMAIN Sources(args)}

\* C9: the sources are applied in the order defaults, cfg, files; a key that
\* sources assign a storable value holds the value of the last of them, and a
\* key that only an earlier source assigns is retained
C9_LastSourceWins ==
    Completed =>
        \A s \in NamedSections(last.val), k \in NamedKeys(last.val) :
            Assigning(last.val, s, k) # {} =>
                /\ Holds(cfgs["cfg"], s, k)
                /\ Held(cfgs["cfg"], s, k)
                      = LastAssigned(last.val, s, k, Max(Assigning(last.val, s, k)))

(***************************************************************************)
(* The text form: save, load_from_file and construction from a file        *)
(***************************************************************************)
f_4e13 == VFloat(FALSE, 0, <<0, 0, 0, 0, 0, 0, 0, 0, 0, 0, 0, 0, 4>>)

\* the dictionaries of valid (section, key, value) triples a configuration is
\* built from
TextMappings ==
    {<<>>,
     OneSection(s_user, <<<<VStr(k_foo), VStr(<<"y">>)>>>>),
     OneSection(s_user, <<<<VStr(k_foo), VStr(<<"2">>)>>>>),
     OneSection(s_user, <<<<VStr(k_foo), VStr(str_x)>>, <<VStr(k_medium), VStr(s_deform)>>>>),
     OneSection(s_user, <<<<VStr(k_foo), VStr(<<" ", "x">>)>>>>),
     OneSection(s_user, <<<<VStr(k_foo), VInt(2)>>>>),
     OneSection(s_user, <<<<VStr(k_foo), VBool(TRUE)>>>>),
     OneSection(s_user, <<<<VStr(k_foo), f_4e13>>>>),
     OneSection(s_setup, <<<<VStr(k_medium), VStr(<<"#">>)>>>>),
     OneSection(s_user, <<<<VStr(k_foo), VList("new", <<f_1_5, VInt(2)>>)>>>>)
        \o OneSection(s_setup, <<<<VStr(k_medium), VStr(<<"y">>)>>,
                                 <<VStr(k_flow_rate), f_1_5>>>>)}

\* files with malformed lines: a "key = value" line before any section header,
\* a line with nothing before the "=", and a file in which a line without "=",
\* a line without value, a comment and a blank line precede "foo = 1"
NoHeaderFile == Line(k_foo, <<"1">>)
EmptyKeyFile == Header(s_user) \o <<"=", " ", "1", "\n">>
MixedFile ==
    Header(s_user) \o k_foo \o <<"\n">> \o k_foo \o <<" ", "=", "\n">>
        \o <<"#", " ", "c", "\n", "\n">> \o Line(k_foo, <<"1">>)
MalformedFiles == {NoHeaderFile, EmptyKeyFile, MixedFile}

TextFiles ==
    {BogusFile, Header(s_setup) \o Line(k_medium, str_x), <<>>} \cup MalformedFiles

TextMade(disable_checks, r) ==
    /\ r.exc = NoExc
    /\ cfgs = [NoConfs EXCEPT !["cfg"] = AdoptConf("cfg", r.ret)]
    /\ last = ConfOp("Configuration", "cfg", None, None, VBool(disable_checks), r)

\* a configuration built from triples, and a file on disk
TextInit ==
    /\ CFG_ANALYSIS = AnalysisOptions
    /\ \E cfg \in TextMappings, disable_checks \in BOOLEAN :
          TextMade(disable_checks, Configuration__init__(<<>>, cfg, disable_checks))
    /\ file \in TextFiles
    /\ d = None

Saved(r) ==
    /\ r.exc = NoExc
    /\ file' = r.ret.s
    /\ last' = ConfOp("save", "cfg", None, None, None, r)
    /\ UNCHANGED <<d, cfgs, CFG_ANALYSIS>>

\* cfg.save(filename)
Save == Saved(Configuration_tostring(cfgs["cfg"], None))

LoadDone(r) ==
    /\ d' = IF r.exc = NoExc THEN r.ret ELSE d
    /\ last' = ConfOp("load", "d", None, None, None, r)
    /\ UNCHANGED <<cfgs, file, CFG_ANALYSIS>>

\* d = load_from_file(filename)
Load == LoadDone(load_from_file(file))

FromFileDone(disable_checks, r) ==
    /\ cfgs' = IF r.exc = NoExc
               THEN [cfgs EXCEPT !["cfg"] = AdoptConf("cfg", r.ret)]
               ELSE cfgs
    /\ last' = ConfOp("fromfile", "cfg", None, None, VBool(disable_checks), r)
    /\ UNCHANGED <<d, file, CFG_ANALYSIS>>

\* cfg = Configuration(files=[filename], disable_checks=...)
FromFile ==
    \E disable_checks \in BOOLEAN :
        FromFileDone(disable_checks,
                     Configuration__init__(<<file>>, <<>>, disable_checks))

TextNext == Save \/ Load \/ FromFile

SpecText == TextInit /\ [][TextNext]_vars

(***************************************************************************)
(* Properties of the text form (checked under SpecText)                    *)
(***************************************************************************)
f_1_0 == VFloat(FALSE, 1, <<>>)

\* what was read from the file: the dictionary of load_from_file or the
\* sections of the configuration constructed from it
Read == IF last.op = "load" THEN d ELSE cfgs["cfg"]._cfg

ReadBogusFile == file = BogusFile /\ last.op \in {"load", "fromfile"}

BogusHolds(data) ==
    /\ VStr(s_bogus) \in DOMAIN Read.data
    /\ DeepCopy(Read.data[VStr(s_bogus)]).data = data

\* C6 as stated: loading "[bogus]" / "foo = 1" yields a section "bogus" with
\* foo = 1.0, exactly one unknown-section warning and no exception
C6_AsStated ==
    ReadBogusFile =>
        /\ last.exc = NoExc
        /\ last.warns = <<W_UnknownSection>>
        /\ BogusHolds(VStr(k_foo) :> f_1_0)

\* C6: load_from_file returns the section "bogus" with foo = 1.0 and warns of
\* nothing; a Configuration constructed from the file has the section "bogus",
\* with checks it is empty and exactly one unknown-section warning is emitted,
\* without checks it holds foo = 1.0 and nothing is emitted; nothing raises
C6_BogusSection ==
    ReadBogusFile =>
        /\ last.exc = NoExc
        /\ IF last.op = "fromfile" /\ ~cfgs["cfg"].disable_checks
           THEN last.warns = <<W_UnknownSection>> /\ BogusHolds(EmptyData)
           ELSE last.warns = <<>> /\ BogusHolds(VStr(k_foo) :> f_1_0)

\* the checked configuration constructed from the file: one warning, the
\* section is there and empty
C6_Witness ==
    /\ ReadBogusFile
    /\ last.op = "fromfile" /\ last.val = VBool(FALSE)
    /\ last.warns = <<W_UnknownSection>>
    /\ BogusHolds(EmptyData)

\* equality of values as Python's ==, floats at the precision of the format
IsNumber(v) == v.t \in {"int", "float", "bool"}

Number(v) ==
    IF v.t = "int" THEN IntToFloat(v.n)
    ELSE IF v.t = "bool" THEN IntToFloat(IF v.b THEN 1 ELSE 0)
    ELSE v

RECURSIVE EqualValues(_, _)
EqualValues(a, b) ==
    IF IsNumber(a) /\ IsNumber(b) THEN FormatFloat(Number(a)) = FormatFloat(Number(b))
    ELSE IF a.t = "str" /\ b.t = "str" THEN a.s = b.s
    ELSE IF a.t = "list" /\ b.t = "list"
    THEN /\ Len(a.items) = Len(b.items)
         /\ \A i \in DOMAIN a.items : EqualValues(a.items[i], b.items[i])
    ELSE FALSE

\* the same sections, the same keys in each section and equal values
SameContent(a, b) ==
    /\ DOMAIN a.data = DOMAIN b.data
    /\ \A s \in DOMAIN a.data :
          /\ DOMAIN a.data[s].data = DOMAIN b.data[s].data
          /\ \A k \in DOMAIN a.data[s].data :
                EqualValues(a.data[s].data[k], b.data[s].data[k])

\* every stored triple is valid: the key is a string that passes
\* verify_section_key, the value is a string, a bool, an int, a float or a list
\* of numbers, and it has the registered type where the registry has one
SupportedValue(v) ==
    \/ v.t \in {"str", "bool", "int", "float"}
    \/ v.t = "list" /\ \A i \in DOMAIN v.items : v.items[i].t \in {"int", "float"}

ValidTriple(s, k, v) ==
    /\ k.t = "str"
    /\ verify_section_key(s, k).ok
    /\ SupportedValue(v)
    /\ get_config_value_type(s, k) # "any" => IsInstance(v, get_config_value_type(s, k))

ValidTriples(conf) ==
    \A s \in DOMAIN SectionsOf(conf) :
        \A k \in DOMAIN SectionsOf(conf)[s].data :
            ValidTriple(s, k, SectionsOf(conf)[s].data[k])

\* the current file is what cfg.save wrote, and it was loaded
RoundTripDone ==
    /\ last.op = "load"
    /\ ValidTriples(cfgs["cfg"])
    /\ Configuration_tostring(cfgs["cfg"], None).exc = NoExc
    /\ file = Configuration_tostring(cfgs["cfg"], None).ret.s

\* C7 as stated: for a configuration of valid triples, loading what save wrote
\* yields the same sections, the same keys and equal values
C7_AsStated == RoundTripDone => last.exc = NoExc /\ SameContent(d, cfgs["cfg"]._cfg)

\* a name or a string that a line of the file carries unchanged
TextSafe(s) ==
    /\ Len(s) > 0
    /\ \A i \in DOMAIN s : s[i] \notin {"#", "\n", "\r"}
    /\ s[1] \notin Whitespace \cup Quotes
    /\ s[Len(s)] \notin Whitespace \cup Quotes

NameSafe(s) ==
    /\ TextSafe(s)
    /\ \A i \in DOMAIN s : s[i] \notin {"=", "[", "]"}

\* a string that the type heuristic leaves a string
StaysString(s) ==
    /\ ~(StartsWith(s, <<"[">>) /\ EndsWith(s, <<"]">>))
    /\ Lower(s) \notin {s_true, s_y, s_false, s_n}
    /\ scalar_feature_exists(s) \/ ~ParseFloat(Replace(s, ",", ".")).ok

PlainTriple(s, k, v) ==
    /\ NameSafe(s.s)
    /\ NameSafe(k.s)
    /\ v.t = "str" => TextSafe(v.s) /\ (config_key_exists(s, k) \/ StaysString(v.s))

PlainText(conf) ==
    \A s \in DOMAIN SectionsOf(conf) :
        \A k \in DOMAIN SectionsOf(conf)[s].data :
            PlainTriple(s, k, SectionsOf(conf)[s].data[k])

\* C7: the round trip through the text form preserves sections, keys and
\* values (floats at 12 decimals, an int as the equal float) when the names
\* contain no '#', '=', bracket or line break and no quote or white space at
\* their ends, and every string value is non-empty, contains no '#' and no line
\* break, has no quote or white space at its ends and, under a key that the
\* registry does not know, is not read as a bool, a number or a list
C7_RoundTrip ==
    (RoundTripDone /\ PlainText(cfgs["cfg"])) =>
        last.exc = NoExc /\ SameContent(d, cfgs["cfg"]._cfg)

\* a configuration with a list of two numbers, a float and a string went
\* through the text form and came back equal
C7_Witness ==
    /\ RoundTripDone
    /\ PlainText(cfgs["cfg"])
    /\ Holds(cfgs["cfg"], VStr(s_user), VStr(k_foo))
    /\ Held(cfgs["cfg"], VStr(s_user), VStr(k_foo)) = VList("new", <<f_1_5, VInt(2)>>)
    /\ Holds(cfgs["cfg"], VStr(s_setup), VStr(k_medium))
    /\ d.data[VStr(s_user)].data[VStr(k_foo)] = VList("new", <<f_1_5, VFloat(FALSE, 2, <<>>)>>)
    /\ SameContent(d, cfgs["cfg"]._cfg)

(***************************************************************************)
(* Malformed lines (checked under SpecText)                                *)
(***************************************************************************)
\* what load_from_file is to return for a file with malformed lines: the
\* entries of the well-formed lines under the most recent header
WellFormedOf(text) ==
    IF text = NoHeaderFile THEN EmptyData
    ELSE VStr(s_user) :>
            (IF text = MixedFile THEN VStr(k_foo) :> f_1_0 ELSE EmptyData)

LoadedData(dict) == [s \in DOMAIN dict.data |-> dict.data[s].data]

\* C11: load_from_file drops every malformed line without raising, and the
\* dictionary it returns holds exactly the entries of the well-formed lines
C11_DropsMalformed ==
    (last.op = "load" /\ file \in MalformedFiles) =>
        /\ last.exc = NoExc
        /\ LoadedData(last.ret) = WellFormedOf(file)

(***************************************************************************)
(* The check of the defaults (checked under SpecConstruct)                 *)
(***************************************************************************)
\* the configuration right after the hard-coded defaults were assigned
AfterDefaults(disable_checks) ==
    SetKeys(Outcome(Conf(disable_checks,
                         ConfigurationDict__init__(None, <<>>, <<>>).d),
                    <<>>, NoExc, None),
            VStr(s_filtering), DefaultFilterValues).d

\* a key of the "filtering" analysis options has no value at that point
LacksDefault(disable_checks) ==
    \E item \in CFG_ANALYSIS_filtering :
        ~Holds(AfterDefaults(disable_checks), VStr(s_filtering), VStr(item))

\* cfg or the first file assigns the key "foo" of section "filtering"
SuppliesFoo(args) ==
    args.cfg = OneSection(s_filtering, <<<<VStr(k_foo), VInt(2)>>>>)

\* C12: a construction raises KeyError exactly when a key of the "filtering"
\* analysis options has no value right after the hard-coded defaults were
\* assigned, whatever cfg and the files supply, and then there is no object
C12_FailsWithoutDefault ==
    last.op = "Configuration" =>
        IF LacksDefault(last.val.disable_checks)
        THEN last.exc = "KeyError" /\ last.ret = None /\ cfgs["cfg"] = None
        ELSE last.exc # "KeyError"

\* the analysis options list "foo" under "filtering", cfg supplies a value for it,
\* and the construction failed all the same
C12_Witness ==
    /\ last.op = "Configuration"
    /\ CFG_ANALYSIS = MoreAnalysisOptions
    /\ SuppliesFoo(last.val)
    /\ LacksDefault(last.val.disable_checks)
    /\ last.exc = "KeyError"
    /\ cfgs["cfg"] = None

(***************************************************************************)
(* Unchecked configurations (checked under Spec)                           *)
(***************************************************************************)
\* cfg[sec] finds or provisions a section
Provisioned(conf, sec) ==
    _k(sec) \in DOMAIN SectionsOf(conf) \/ sec.s \in config_keys \cup {s_user}

\* every item of newcfg that is not None is stored as given under the
\* lower-cased names
ItemsStored(conf, newcfg) ==
    \A i \in DOMAIN newcfg : \A j \in DOMAIN newcfg[i][2] :
        newcfg[i][2][j][2] # None =>
            /\ Holds(conf, _k(newcfg[i][1]), _k(newcfg[i][2][j][1]))
            /\ Held(conf, _k(newcfg[i][1]), _k(newcfg[i][2][j][1]))
                  = DeepCopy(newcfg[i][2][j][2])

HasNone(newcfg) ==
    \E i \in DOMAIN newcfg : \E j \in DOMAIN newcfg[i][2] :
        newcfg[i][2][j][2] = None

\* C13: with disable_checks every section of the configuration is unchecked
\* (its section is None), and cfg[sec][key] = value for a value other than None
\* on a section that exists or is provisioned, and update with such values,
\* store exactly the value under the lower-cased key and warn of nothing,
\* whatever the names and also for the empty string
C13_Unchecked ==
    [][cfgs["cfg"].disable_checks =>
          /\ \A s \in DOMAIN SectionsOf(cfgs'["cfg"]) :
                SectionsOf(cfgs'["cfg"])[s].section = None
          /\ (last'.op = "setkey" /\ last'.val # None
                  /\ Provisioned(cfgs["cfg"], last'.sec)) =>
                /\ last'.exc = NoExc /\ last'.warns = <<>>
                /\ Holds(cfgs'["cfg"], _k(last'.sec), _k(last'.key))
                /\ Held(cfgs'["cfg"], _k(last'.sec), _k(last'.key))
                      = DeepCopy(last'.val)
          /\ last'.op = "update" =>
                /\ last'.exc = NoExc
                /\ ItemsStored(cfgs'["cfg"], last'.val)
                /\ ~HasNone(last'.val) => last'.warns = <<>>]_vars

\* an empty string was assigned to the key "foo" of the section "bogus" of an
\* unchecked configuration and is stored
C13_Witness ==
    /\ cfgs["cfg"].disable_checks
    /\ last.op = "setkey" /\ last.exc = NoExc /\ last.warns = <<>>
    /\ last.sec = VStr(s_bogus) /\ last.key = VStr(k_foo) /\ last.val = VStr(<<>>)
    /\ SectionsOf(cfgs["cfg"])[VStr(s_bogus)].section = None
    /\ Held(cfgs["cfg"], VStr(s_bogus), VStr(k_foo)) = VStr(<<>>)

(***************************************************************************)
(* verify_section_key on chosen arguments                                  *)
(***************************************************************************)
VerifySections ==
    {VStr(s_setup), VStr(s_filtering), VStr(s_user), VStr(s_plotting),
     VStr(s_analysis), VStr(s_bogus)}

VerifyKeys ==
    {VStr(k_medium), VStr(k_flow_rate), VStr(k_limit_events), VStr(k_foo),
     VStr(s_deform \o s_min), VStr(s_deform \o s_max), VStr(k_foo \o s_max),
     VStr(k_limit_events_auto), VStr(<<>>), VStr(<<" ">>), VInt(5)}

\* the arguments of a call are chosen
VerifyInit ==
    /\ CFG_ANALYSIS = AnalysisOptions
    /\ \E section \in VerifySections, key \in VerifyKeys :
          last = [Idle EXCEPT !.op = "args", !.sec = section, !.key = key]
    /\ cfgs = NoConfs
    /\ d = None
    /\ file = NoFile

Verified(section, key, r) ==
    /\ last' = [Idle EXCEPT !.op = "verify", !.sec = section, !.key = key,
                            !.warns = r.warns, !.exc = r.exc,
                            !.ret = IF r.exc = NoExc THEN VBool(r.ok) ELSE None]
    /\ UNCHANGED <<d, cfgs, file, CFG_ANALYSIS>>

\* verify_section_key(section, key)
Verify ==
    /\ last.op = "args"
    /\ Verified(last.sec, last.key, verify_section_key(last.sec, last.key))

SpecVerify == VerifyInit /\ [][Verify]_vars

\* a key of "filtering" that names a range: it ends in " min" or " max"
IsRange(key) == key.t = "str" /\ (EndsWith(key.s, s_min) \/ EndsWith(key.s, s_max))

\* the pairs that are to be accepted
AcceptedPair(section, key) ==
    \/ config_key_exists(section, key)
    \/ /\ section = VStr(s_filtering)
       /\ IsRange(key)
       /\ scalar_feature_exists(SubSeq(key.s, 1, Len(key.s) - 4))
    \/ /\ section = VStr(s_user)
       /\ key.t = "str"
       /\ Len(Strip(key.s)) > 0

\* the warning of the first branch that matches a pair that is not accepted
FirstWarning(section, key) ==
    IF section \in {VStr(s_plotting), VStr(s_analysis)} THEN W_DeprecatedSection
    ELSE IF section = VStr(s_filtering)
    THEN IF IsRange(key) THEN W_UnknownRange
         ELSE IF key = VStr(k_limit_events_auto) THEN W_DeprecatedKey
         ELSE W_UnknownFilteringKey
    ELSE IF section = VStr(s_user) THEN W_BadUserKey
    ELSE IF section.s \notin config_keys THEN W_UnknownSection
    ELSE W_UnknownKey

\* C14: verify_section_key returns True without a warning exactly for the
\* pairs that the registry knows, the ranges of known scalar features in
\* "filtering" and the non-blank string keys of "user"; for every other pair it
\* returns False with exactly one warning, that of the first matching branch
C14_Classifies ==
    last.op = "verify" =>
        /\ last.exc = NoExc
        /\ IF AcceptedPair(last.sec, last.key)
           THEN last.ret = VBool(TRUE) /\ last.warns = <<>>
           ELSE last.ret = VBool(FALSE)
                  /\ last.warns = <<FirstWarning(last.sec, last.key)>>

(***************************************************************************)
(* Dropped and stored writes (checked under SpecDict)                      *)
(***************************************************************************)
\* a warning of a kind other than wrong-type was emitted for the last call
OtherWarning(warns) == \E i \in DOMAIN warns : warns[i] # W_WrongType

\* the dictionary holds what it held and, under the lower-cased key, the
\* converted value
StoredConverted(old, new, key, value) ==
    /\ ApplyFunc(get_config_value_func(old.section, LowKey(key)), value).exc = NoExc
    /\ new.data = Put(old.data, LowKey(key),
                      ApplyFunc(get_config_value_func(old.section, LowKey(key)),
                                value).v)

\* the pair is valid, the value is neither None nor the empty string and is no
\* instance of the registered type
WrongTyped(self, key, value) ==
    /\ key.t = "str"
    /\ verify_section_key(self.section, LowKey(key)).ok
    /\ value \notin {None, VStr(<<>>)}
    /\ get_config_value_type(self.section, LowKey(key)) # "any"
    /\ ~IsInstance(value, get_config_value_type(self.section, LowKey(key)))

\* C15: an assignment in a dictionary with a section is dropped exactly when
\* a warning of a kind other than wrong-type is emitted; otherwise the
\* converted value is stored, and a value of the wrong type for a valid pair
\* is warned of and its conversion stored all the same
C15_DropsOrStores ==
    [][CheckedSet =>
          /\ IF OtherWarning(last'.warns)
             THEN d' = d
             ELSE last'.exc = NoExc /\ StoredConverted(d, d', last'.key, last'.val)
          /\ WrongTyped(d, last'.key, last'.val) =>
                /\ W_WrongType \in Range(last'.warns)
                /\ StoredConverted(d, d', last'.key, last'.val)]_vars

(***************************************************************************)
(* A configuration with checks: construction from cfg and files, update,   *)
(* assignments, deletions and cfg = cfg.copy()                             *)
(***************************************************************************)
str_deform_min == s_deform \o s_min

CheckedPairs ==
    {<<VStr(s_setup), VStr(k_medium)>>, <<VStr(s_setup), VStr(k_foo)>>,
     <<VStr(s_user), VStr(<<" ">>)>>, <<VStr(s_user), VInt(5)>>,
     <<VStr(s_bogus), VStr(k_foo)>>,
     <<VStr(s_filtering), VStr(Upper(str_deform_min))>>,
     <<VStr(s_filtering), VStr(k_foo \o s_max)>>}

CheckedValues == {None, VStr(<<>>), VInt(2)}

CheckedMappings ==
    {<<>>,
     OneSection(Upper(s_setup), <<<<VStr(k_medium), VInt(2)>>>>),
     OneSection(s_bogus, <<<<VStr(k_foo), VInt(2)>>>>),
     OneSection(s_setup, <<<<VStr(k_medium), VStr(<<>>)>>,
                           <<VStr(k_flow_rate), VInt(2)>>>>),
     OneSection(s_user, <<<<VStr(k_foo), list_1_5>>, <<VStr(<<>>), VInt(2)>>>>)}

CheckedFiles ==
    {<<>>, <<BogusFile>>,
     <<Header(s_user) \o Line(k_foo, str_x) \o Header(s_setup)
          \o Line(k_foo, str_x)>>}

\* cfg = Configuration(files, cfg)
CheckedInit ==
    /\ CFG_ANALYSIS = AnalysisOptions
    /\ \E files \in CheckedFiles, cfg \in CheckedMappings :
          ConfMade(FALSE, Configuration__init__(files, cfg, FALSE))
    /\ d = None
    /\ file = NoFile

CopiedOver(r) ==
    /\ r.exc = NoExc
    /\ cfgs' = [cfgs EXCEPT !["cfg"] = AdoptConf("cfg", r.ret)]
    /\ last' = ConfOp("copy", "cfg", None, None, None, r)
    /\ UNCHANGED <<d, file, CFG_ANALYSIS>>

\* cfg = cfg.copy()
CopyOver == CopiedOver(copy(cfgs["cfg"]))

KSetKey == SetKeyOn("cfg", CheckedPairs, CheckedValues)
KDelKey == DelKeyOn("cfg", CheckedPairs)
KUpdate == UpdateOn("cfg", CheckedMappings)

CheckedNext == KSetKey \/ KDelKey \/ KUpdate \/ CopyOver

SpecChecked == CheckedInit /\ [][CheckedNext]_vars

\* the name of a section is known: it is registered or "user"
KnownName(s) == s.t = "str" /\ s.s \in config_keys \cup {s_user}

\* every stored pair of a configuration is accepted and holds a value
AllAccepted(conf) ==
    \A s \in DOMAIN SectionsOf(conf) :
        /\ Truthy(SectionsOf(conf)[s].section)
        /\ \A k \in DOMAIN SectionsOf(conf)[s].data :
              /\ k.t = "str"
              /\ verify_section_key(s, k).ok
              /\ SectionsOf(conf)[s].data[k] \notin {None, VStr(<<>>)}
        /\ ~KnownName(s) => SectionsOf(conf)[s].data = EmptyData

Content(conf) ==
    [s \in DOMAIN SectionsOf(conf) |-> DeepCopy(SectionsOf(conf)[s]).data]

\* a dictionary argument with its section names in lower case
LowerSections(newcfg) ==
    [i \in DOMAIN newcfg |-> <<_k(newcfg[i][1]), newcfg[i][2]>>]

\* the call ended as the outcome r says: same exception, same warnings, same
\* sections, keys and values
SameOutcome(conf, op, r) ==
    /\ op.exc = r.exc
    /\ op.warns = r.warns
    /\ Content(conf) = Content(r.d)

\* C17: update and cfg[sec] with a case variant of a section name end as they
\* do with the lower-case name, and an update that assigns a storable value
\* to one valid key stores it whether or not the section existed before
C17_SectionCase ==
    [][/\ last'.op = "update" =>
             /\ SameOutcome(cfgs'["cfg"], last',
                    Configuration_update(cfgs["cfg"], LowerSections(last'.val)))
             /\ OneValidKey(last'.val) =>
                    Holds(cfgs'["cfg"], _k(last'.val[1][1]), _k(last'.val[1][2][1][1]))
       /\ last'.op = "getitem" =>
             SameOutcome(cfgs'["cfg"], last',
                    Configuration__getitem__(cfgs["cfg"], _k(last'.sec)))]_vars

(***************************************************************************)
(* The content of a copy (checked under SpecCopy)                          *)
(***************************************************************************)
\* C18: right after c = cfg.copy() the copy has the section names of cfg and in
\* each section the keys of cfg with equal values, whether cfg was constructed
\* with or without checks
C18_CopyPreserves ==
    last.op = "copy" => SameContent(cfgs["c"]._cfg, cfgs["cfg"]._cfg)

(***************************************************************************)
(* Read-only operations on a configuration                                 *)
(***************************************************************************)
ReadNames ==
    {VStr(s_setup), VStr(Upper(s_setup)), VStr(s_user), VStr(s_filtering),
     VStr(s_bogus)}

ReadMappings ==
    {<<>>,
     OneSection(s_setup, <<<<VStr(k_medium), VInt(2)>>>>),
     OneSection(Upper(s_setup), <<>>),
     OneSection(s_user, <<<<VStr(k_foo), list_1_5>>>>)
        \o OneSection(s_bogus, <<<<VStr(k_foo), VInt(2)>>>>)}

\* the argument sections of tostring
NameLists ==
    {None, [t |-> "names", names |-> {s_setup}],
     [t |-> "names", names |-> {Upper(s_setup), s_user, s_bogus}]}

\* cfg = Configuration(cfg=..., disable_checks=...)
ReadInit ==
    /\ CFG_ANALYSIS = AnalysisOptions
    /\ \E cfg \in ReadMappings, disable_checks \in BOOLEAN :
          ConfMade(disable_checks, Configuration__init__(<<>>, cfg, disable_checks))
    /\ d = None
    /\ file = NoFile

\* an operation that returns a value and has no access to change the object
Returned(self, ret) == Outcome(self, <<>>, NoExc, ret)

\* cfg.get(key, other)
RGet ==
    \E key \in ReadNames, other \in {None, VInt(2)} :
        ConfStep("cfg", "get", key, None, other,
                 Configuration_get(cfgs["cfg"], key, other))

\* key in cfg
RContains ==
    \E key \in ReadNames :
        ConfStep("cfg", "contains", key, None, None,
                 Returned(cfgs["cfg"],
                          VBool(Configuration__contains__(cfgs["cfg"], key))))

\* iter(cfg) and cfg.keys()
RIter ==
    \E op \in {"iter", "keys"} :
        ConfStep("cfg", op, None, None, None,
                 Returned(cfgs["cfg"], Configuration__iter__(cfgs["cfg"])))

\* len(cfg)
RLen ==
    ConfStep("cfg", "len", None, None, None,
             Returned(cfgs["cfg"], Configuration__len__(cfgs["cfg"])))

\* cfg.tostring(sections)
RToString ==
    \E sections \in NameLists :
        ConfStep("cfg", "tostring", None, None, sections,
                 Configuration_tostring(cfgs["cfg"], sections))

ReadNext == RGet \/ RContains \/ RIter \/ RLen \/ RToString

SpecRead == ReadInit /\ [][ReadNext]_vars

ReadOps == {"get", "contains", "iter", "keys", "len", "tostring"}

\* no section of the configuration is stored under the name
Absent(conf, sec) == _k(sec) \notin DOMAIN SectionsOf(conf)

\* C19: get, the containment test, iteration, len, keys and tostring leave the
\* sections and their contents as they were; for an absent section get
\* returns the default, the containment test is False and tostring exports
\* nothing, also when the registry knows the name
C19_ReadOnly ==
    [][last'.op \in ReadOps =>
          /\ cfgs' = cfgs
          /\ (last'.op = "get" /\ Absent(cfgs["cfg"], last'.sec)) =>
                last'.ret = last'.val
          /\ (last'.op = "contains" /\ Absent(cfgs["cfg"], last'.sec)) =>
                last'.ret = VBool(FALSE)
          /\ (last'.op = "tostring" /\ last'.val # None
                 /\ \A k \in last'.val.names : Absent(cfgs["cfg"], VStr(k))) =>
                last'.ret = VStr(<<>>)]_vars

\* get was asked for the section "setup", which the registry knows and the
\* configuration does not have, and returned the default
C19_Witness ==
    /\ last.op = "get" /\ last.sec = VStr(s_setup) /\ last.val = VInt(2)
    /\ Absent(cfgs["cfg"], VStr(s_setup))
    /\ last.ret = VInt(2)

====
